---- MODULE Spec2Model ----
(***************************************************************************)
(* Model of the blog listing (BlogSystem) and the post detail view         *)
(* (SinglePostLoader) of src/unnamed/part_000, with the helpers of         *)
(* src/js/utils.js they call.                                              *)
(*                                                                         *)
(* Text is a sequence of one-character strings, so that toLowerCase, the   *)
(* whitespace-run replacement and escapeHtml act character by character as *)
(* the JavaScript does.  An absent optional field (image, readTime,        *)
(* content) is the empty text: the code only ever tests those fields for   *)
(* truthiness, and '' and undefined are both falsy.                        *)
(***************************************************************************)
EXTENDS Integers, Sequences, FiniteSets, TLC

\* ------------------------------------------------------------------ bounds

\* Longest posts array a fetched document holds.
MaxPosts == 3
\* Largest postsPerPage option a BlogSystem is constructed with.
MaxPerPage == 2
\* Largest previewCount option a BlogSystem is constructed with.
MaxPreview == 3
\* currentPage is not let grow past this (load-more clicks are unbounded).
MaxPage == 3

\* postsPerPage when the option is not given (options.postsPerPage || 9).
DefaultPostsPerPage == 9
\* previewCount when the option is not given (options.previewCount || 3).
DefaultPreviewCount == 3

\* -------------------------------------------------------------------- text

UpperChars == {"A", "B", "D", "E", "F", "I", "J", "L", "S", "T", "W"}
WhitespaceChars == {" ", "\t"}

\* String.prototype.toLowerCase on one character.
LowerChar(c) ==
  CASE c = "A" -> "a" [] c = "B" -> "b" [] c = "D" -> "d" [] c = "E" -> "e"
    [] c = "F" -> "f" [] c = "I" -> "i" [] c = "J" -> "j" [] c = "L" -> "l"
    [] c = "S" -> "s" [] c = "T" -> "t" [] c = "W" -> "w"
    [] OTHER -> c

\* String.prototype.toLowerCase.
ToLowerCase(s) == [i \in 1..Len(s) |-> LowerChar(s[i])]

\* String.prototype.replace(/\s+/g, '-'): every maximal run of whitespace
\* becomes one '-'.
RECURSIVE ReplaceWhitespaceRuns(_)
ReplaceWhitespaceRuns(s) ==
  IF s = <<>> THEN <<>>
  ELSE IF Head(s) \in WhitespaceChars
       THEN IF Len(s) > 1 /\ s[2] \in WhitespaceChars
            THEN ReplaceWhitespaceRuns(Tail(s))
            ELSE <<"-">> \o ReplaceWhitespaceRuns(Tail(s))
       ELSE <<Head(s)>> \o ReplaceWhitespaceRuns(Tail(s))

\* label.toLowerCase().replace(/\s+/g, '-')
Slug(s) == ReplaceWhitespaceRuns(ToLowerCase(s))

\* The serialisation of one character of a text node (div.textContent = text;
\* div.innerHTML).
EscapeChar(c) ==
  CASE c = "&" -> <<"&", "a", "m", "p", ";">>
    [] c = "<" -> <<"&", "l", "t", ";">>
    [] c = ">" -> <<"&", "g", "t", ";">>
    [] OTHER -> <<c>>

\* utils.escapeHtml
RECURSIVE EscapeHtml(_)
EscapeHtml(text) ==
  IF text = <<>> THEN <<>> ELSE EscapeChar(Head(text)) \o EscapeHtml(Tail(text))

\* String.prototype.charAt(0): the first character, or '' for the empty text.
CharAt0(s) == IF s = <<>> THEN <<>> ELSE <<Head(s)>>

DigitChars == <<"0", "1", "2", "3", "4", "5", "6", "7", "8", "9">>

\* Number.prototype.toString for a non-negative integer.
RECURSIVE NatToString(_)
NatToString(n) ==
  IF n < 10 THEN <<DigitChars[n + 1]>>
  ELSE NatToString(n \div 10) \o <<DigitChars[(n % 10) + 1]>>

\* The value of a decimal digit character.
DigitValue(c) == CHOOSE d \in 0..9 : DigitChars[d + 1] = c

\* The number a run of decimal digits denotes.
RECURSIVE DigitsToNat(_)
DigitsToNat(s) ==
  IF s = <<>> THEN 0
  ELSE 10 * DigitsToNat(SubSeq(s, 1, Len(s) - 1)) + DigitValue(s[Len(s)])

\* ------------------------------------------------------------------- dates

Pad2(n) == IF n < 10 THEN <<"0">> \o NatToString(n) ELSE NatToString(n)

\* The date-only ISO text YYYY-MM-DD of a calendar day (years 1000..9999).
IsoDate(y, m, d) == NatToString(y) \o <<"-">> \o Pad2(m) \o <<"-">> \o Pad2(d)

\* The ISO text YYYY-MM-DDTHH:mmZ of the same kind of day with a UTC time.
IsoDateTime(y, m, d, hh, mi) ==
  IsoDate(y, m, d) \o <<"T">> \o Pad2(hh) \o <<":">> \o Pad2(mi) \o <<"Z">>

\* The fields new Date(dateString) reads from an ISO text: a date-only text is
\* UTC midnight.
DateFields(s) ==
  [year   |-> DigitsToNat(SubSeq(s, 1, 4)),
   month  |-> DigitsToNat(SubSeq(s, 6, 7)),
   day    |-> DigitsToNat(SubSeq(s, 9, 10)),
   hour   |-> IF Len(s) > 10 THEN DigitsToNat(SubSeq(s, 12, 13)) ELSE 0,
   minute |-> IF Len(s) > 10 THEN DigitsToNat(SubSeq(s, 15, 16)) ELSE 0]

\* Days from 1970-01-01 to a day of the proleptic Gregorian calendar.
DaysFromCivil(y, m, d) ==
  LET yy  == IF m <= 2 THEN y - 1 ELSE y
      era == yy \div 400
      yoe == yy - era * 400
      mp  == IF m > 2 THEN m - 3 ELSE m + 9
      doy == (153 * mp + 2) \div 5 + d - 1
      doe == yoe * 365 + yoe \div 4 - yoe \div 100 + doy
  IN era * 146097 + doe - 719468

\* The time value of new Date(dateString), in minutes since the epoch (the
\* JavaScript value is this times 60000, which does not fit TLC's integers; the
\* comparator only uses the sign of a difference).
DateValue(s) ==
  LET f == DateFields(s)
  IN DaysFromCivil(f.year, f.month, f.day) * 1440 + f.hour * 60 + f.minute

\* utils.formatDate: toLocaleDateString('de-DE', day numeric, month long, year
\* numeric), kept as its three parts (the UTC calendar day; the month name is
\* kept as the month's number).
FormatDate(s) ==
  LET f == DateFields(s) IN [day |-> f.day, month |-> f.month, year |-> f.year]

\* ------------------------------------------------------------------- posts

\* A post id in the JSON document: a number or a string.
NumId(n) == [isNumber |-> TRUE, n |-> n, s |-> <<>>]
StrId(s) == [isNumber |-> FALSE, n |-> 0, s |-> s]

\* post.id.toString(), and the text a template literal makes of post.id.
IdToString(id) == IF id.isNumber THEN NatToString(id.n) ELSE id.s

PostA ==
  [id |-> NumId(3), title |-> <<"a", "<", "b">>, excerpt |-> <<"x", "&", "y">>,
   content |-> <<>>, author |-> <<"L", "e", "o">>,
   category |-> <<"W", "e", "b", " ", "D", "e", "v">>, tags |-> << <<"J", "S">> >>,
   date |-> IsoDate(2024, 3, 10), image |-> <<>>, readTime |-> <<>>]

PostB ==
  [id |-> StrId(<<"3">>), title |-> <<"T">>, excerpt |-> <<"e">>,
   content |-> <<"<", "p", ">", "t">>, author |-> <<"L", "&", "D">>,
   category |-> <<"<", "i">>,
   tags |-> << <<"W", "e", "b", " ", "\t", "D", "e", "v">>, <<"a", ">", "b">> >>,
   date |-> IsoDate(2024, 1, 5), image |-> <<"u", "\"", ">">>,
   readTime |-> <<"<", "5">>]

PostC ==
  [id |-> NumId(12), title |-> <<"B", "&">>, excerpt |-> <<"b">>,
   content |-> <<>>, author |-> <<"L", "e", "o">>,
   category |-> <<"L", "i", "f", "e">>,
   tags |-> << <<"w", "e", "b", "-", "d", "e", "v">> >>,
   date |-> IsoDateTime(2024, 3, 10, 0, 0), image |-> <<"a">>,
   readTime |-> <<"7">>]

PostD ==
  [id |-> StrId(<<"<", "x">>), title |-> <<"D">>, excerpt |-> <<"d", ">">>,
   content |-> <<>>, author |-> <<"S">>,
   category |-> <<"&", " ", "l", "i", "f", "e">>,
   tags |-> << <<"L", "I", "F", "E">> >>,
   date |-> IsoDate(2023, 12, 31), image |-> <<>>, readTime |-> <<>>]

PostUniverse == {PostA, PostB, PostC, PostD}

\* The posts arrays a document may hold: up to MaxPosts different posts, in any
\* order.
RECURSIVE PostArraysOfLen(_)
PostArraysOfLen(n) ==
  IF n = 0 THEN {<<>>}
  ELSE {Append(s, p) : s \in PostArraysOfLen(n - 1), p \in PostUniverse}

IsInjective(s) == \A i, j \in 1..Len(s) : i # j => s[i] # s[j]

PostArrays ==
  UNION {{s \in PostArraysOfLen(n) : IsInjective(s)} : n \in 0..MaxPosts}

\* ---------------------------------------------------------------- fetching

\* What fetching data/posts.json can come to: fetch() rejects, the status is
\* not OK, the body is not JSON, the document is null, it has no posts member,
\* its posts member is not an array (an object), or it has a posts array.
ResponseKinds ==
  {"network-error", "http-error", "parse-error", "null-document", "no-posts",
   "posts-not-array", "ok"}

Responses ==
  {[kind |-> k, posts |-> <<>>] : k \in ResponseKinds \ {"ok"}}
    \cup {[kind |-> "ok", posts |-> a] : a \in PostArrays}

\* utils.fetchJSON: the parsed document, or null when fetch rejects, the status
\* is not OK or the body does not parse (every error is caught and logged, so
\* the call never throws).
FetchJSON(r) ==
  CASE r.kind \in {"network-error", "http-error", "parse-error", "null-document"} ->
         [isNull |-> TRUE, postsKind |-> "undefined", posts |-> <<>>]
    [] r.kind = "no-posts" ->
         [isNull |-> FALSE, postsKind |-> "undefined", posts |-> <<>>]
    [] r.kind = "posts-not-array" ->
         [isNull |-> FALSE, postsKind |-> "object", posts |-> <<>>]
    [] OTHER ->
         [isNull |-> FALSE, postsKind |-> "array", posts |-> r.posts]

\* data && data.posts is truthy (an array, even an empty one, and an object are).
HasPosts(data) == ~data.isNull /\ data.postsKind # "undefined"

\* ----------------------------------------------------------------- sorting

\* A comparator that sorts by date ascending.
DateCompareAscending(a, b) == DateValue(a.date) - DateValue(b.date)

\* The comparator (a, b) => new Date(b.date) - new Date(a.date).
DateCompare(a, b) == DateValue(b.date) - DateValue(a.date)

\* One step of a stable sort: x, which came after every element of the sorted
\* s, goes behind the elements that do not compare greater than it.
InsertSorted(s, x) ==
  LET k == Cardinality({i \in 1..Len(s) : DateCompare(s[i], x) <= 0})
  IN SubSeq(s, 1, k) \o <<x>> \o SubSeq(s, k + 1, Len(s))

\* Array.prototype.sort with DateCompare: a stable sort (ECMAScript 2019).
RECURSIVE SortByDate(_)
SortByDate(a) ==
  IF a = <<>> THEN <<>>
  ELSE InsertSorted(SortByDate(SubSeq(a, 1, Len(a) - 1)), a[Len(a)])

\* ----------------------------------------------------------------- listing

VARIABLES
  \* The listing page (BlogSystem).
  options,        \* postsPerPage, isPreview, previewCount as the constructor set them
  response,       \* what the fetch of the posts document comes to
  blogPc,         \* "fetching": init() awaits loadPosts(); "ready": init() is done
  posts,          \* this.posts
  filteredPosts,  \* this.filteredPosts
  currentFilter,  \* this.currentFilter
  currentPage,    \* this.currentPage
  container,      \* the children of the container element, in document order
  loadMore,       \* the #load-more element: present, and its style.display
  activeButtons,  \* the filter buttons (by data-filter) that carry 'active'
  animPending,    \* a timer of animateNewCards has yet to fire
  activations,    \* history: load-more activations since the last filter change
  errorShown      \* history: showError ran during this init()

listingVars ==
  <<options, blogPc, posts, filteredPosts, currentFilter, currentPage, container,
    loadMore, activeButtons, animPending, activations, errorShown>>

VARIABLES
  \* The detail page (SinglePostLoader).
  urlId,          \* the id parameter of the query string: present, and its value
  layout,         \* the optional elements the page has (by selector)
  postPc,         \* "fetching": init() awaits loadPost(); "done": init() returned
  postContent,    \* what #post-content holds
  postHeader,     \* what .post-header holds
  featuredImage,  \* .post-featured-image: its image and its style.display
  postTags,       \* what .post-tags holds
  documentTitle,  \* document.title
  metaTags,       \* the content of the description and og: meta tags
  navPc,          \* setupNavigation: "idle", "fetching" (awaits its fetch), "done"
                  \* (the links were set), "returned" (no posts: it returned early)
  navLinks,       \* the .nav-prev and .nav-next links
  renderedPost    \* history: the post render() was called with

detailVars ==
  <<urlId, layout, postPc, postContent, postHeader, featuredImage, postTags,
    documentTitle, metaTags, navPc, navLinks, renderedPost>>

VARIABLES
  \* The clock: Date.now(), in milliseconds.
  now

VARIABLES
  \* The intro loader (StarfieldLoader) over the page loads of one session.
  loaderPage,     \* the page load: a .loader-skip button, reduced motion, skip=true
                  \* in the URL, document.readyState 'complete' at construction
  sessionStorage, \* the 'loaderShown' item of the session: set or not
  loaderPc,       \* "bypassed": init() took skipImmediately(); "started": it did not
  state,          \* this.state: isComplete, isSkipped, resourcesLoaded, startTime
  fallbackTimer,  \* the due time of setupFallbackTimer's timer, NoTimer once fired
  minDisplayTimer,\* the due time of onResourcesLoaded's timer
  fadeOutTimer,   \* the due time of complete()'s timer
  removeTimer,    \* the due time of the timer that removes the overlay
  loadFired,      \* the window load event of this page load has fired
  loaderOverlay,  \* #loader-overlay: in the document, its fade-out and hidden classes
  bodyLoaderActive, \* body carries 'loader-active'
  starfield,      \* the canvas animation runs (this.animationId is live)
  contentRevealed,  \* history: calls of revealContent() on this page load
  loaderCompleteEvents, \* history: 'loaderComplete' events dispatched on this page load
  completeEnteredAt,    \* history: the time of the first call of complete(), or NoTimer
  completeRuns,   \* history: runs of complete() past its guard on this page load
  pageLoads,      \* history: page loads of the session so far
  displayedLoads  \* history: page loads of the session that displayed the loader

loaderVars ==
  <<loaderPage, sessionStorage, loaderPc, state, fallbackTimer, minDisplayTimer,
    fadeOutTimer, removeTimer, loadFired, loaderOverlay, bodyLoaderActive, starfield,
    contentRevealed, loaderCompleteEvents, completeEnteredAt, completeRuns,
    pageLoads, displayedLoads>>

VARIABLES
  \* The welcome animation (WelcomeAnimation) over page loads.
  welcomePage,    \* the page load: a .skip-btn button, reduced motion, skip=true
  localStorage,   \* the 'welcomeSkipped' item: present, and its expires
  welcomePc,      \* "bypassed": init() took skipImmediately(); "running":
                  \* startAnimation() is in a wait; "returned": it has returned
  welcomeStep,    \* the number of the wait startAnimation() is in or was last in
  hasSkipped,     \* this.hasSkipped
  animationComplete, \* this.animationComplete
  welcomeTimer,   \* the due time of the wait startAnimation() is in
  welcomeFadeTimer,  \* the due time of fadeOut()'s timer
  escapeListener, \* the once-only keydown listener is still registered
  welcomeOverlay, \* #welcome-overlay: in the document, its fade-out class
  bodyWelcomeActive, \* body carries 'welcome-active'
  mainRevealed,   \* history: calls of revealMainContent() on this page load
  welcomeCompleteEvents, \* history: 'welcomeComplete' events on this page load
  welcomeLoadedAt,   \* history: the time of this page load
  lastSkipAt,     \* history: the time of the last skip() that took effect, or NoTimer
  lastKey,        \* history: the key of the last keydown of this page load
  welcomeLoads    \* history: page loads so far

welcomeVars ==
  <<welcomePage, localStorage, welcomePc, welcomeStep, hasSkipped, animationComplete,
    welcomeTimer, welcomeFadeTimer, escapeListener, welcomeOverlay,
    bodyWelcomeActive, mainRevealed, welcomeCompleteEvents, welcomeLoadedAt,
    lastSkipAt, lastKey, welcomeLoads>>

introVars == <<now, loaderVars, welcomeVars>>

VARIABLES
  \* The page: the mount elements it has (by selector).
  mounts,
  \* The browser: whether its sessionStorage works (see StorageModes).
  storageMode

VARIABLES
  \* The click listeners that init() has added to each filter button and to
  \* the load-more button: one per run of setupFilters() and setupLoadMore().
  clickListeners

VARIABLES
  \* The scroll animations (ScrollAnimations of animations.js).
  scrollPc,       \* "constructed" once the constructor has run
  scrollPage,     \* the page load: the reduced-motion preference
  observers,      \* IntersectionObservers created so far
  animatedElements, \* the .animate-on-scroll elements: observed, 'animate-in', style
  staggerContainers,\* the .stagger-children containers, with their children's style
  countElements   \* the [data-count] elements: dataset, observed, text, animation

scrollVars ==
  <<scrollPc, scrollPage, observers, animatedElements, staggerContainers,
    countElements>>

VARIABLES
  \* The navigation chrome (Navigation of part_001).
  navigationPc,   \* "constructed" once the constructor has run
  navPage,        \* the elements the page has: navbar, hamburger, menu, overlay, back-to-top
  isMenuOpen,     \* this.isMenuOpen
  menuClasses,    \* 'active' on hamburger, menu, overlay; 'menu-open' on body
  innerWidth,     \* window.innerWidth
  resizeTimer,    \* the debounced resize handler's timer is pending
  pageYOffset,    \* window.pageYOffset
  navbarScrolled, \* .navbar carries 'scrolled'
  navbarThrottle, \* inThrottle of the navbar's scroll handler (its timer is pending)
  backToTopVisible, \* #back-to-top carries 'visible'
  backToTopThrottle,\* inThrottle of the back-to-top scroll handler
  lastEvent       \* history: the last event the navigation handled

navigationVars ==
  <<navigationPc, navPage, isMenuOpen, menuClasses, innerWidth, resizeTimer,
    pageYOffset, navbarScrolled, navbarThrottle, backToTopVisible,
    backToTopThrottle, lastEvent>>

VARIABLES
  \* The tooltips and modals of main.js.
  mainPc,         \* "initialized" once the DOMContentLoaded handler has run
  hovered,        \* the [data-tooltip] element the pointer is over, 0 if none
  tooltips,       \* the .tooltip elements of body, in document order
  tooltipTimers,  \* the pending timers of showTooltip and hideTooltip
  tooltipsMade,   \* history: tooltip elements created so far
  activeModals,   \* the modals that carry 'active'
  bodyOverflow    \* document.body.style.overflow

mainVars ==
  <<mainPc, hovered, tooltips, tooltipTimers, tooltipsMade, activeModals,
    bodyOverflow>>

\* What the page offers the scripts and no script changes.
pageEnv == <<mounts, storageMode>>

pageVars == <<pageEnv, clickListeners, scrollVars, navigationVars, mainVars>>

\* The state of a chrome component on a page it does not run on.
ScrollIdle ==
  /\ scrollPc = "absent"
  /\ scrollPage = [reducedMotion |-> FALSE]
  /\ observers = 0
  /\ animatedElements = <<>>
  /\ staggerContainers = <<>>
  /\ countElements = <<>>

NavigationIdle ==
  /\ navigationPc = "absent"
  /\ navPage = [navbar |-> FALSE, hamburger |-> FALSE, mobileMenu |-> FALSE,
                mobileOverlay |-> FALSE, backToTop |-> FALSE]
  /\ isMenuOpen = FALSE
  /\ menuClasses = [hamburger |-> FALSE, mobileMenu |-> FALSE,
                    mobileOverlay |-> FALSE, body |-> FALSE]
  /\ innerWidth = 0
  /\ resizeTimer = FALSE
  /\ pageYOffset = 0
  /\ navbarScrolled = FALSE
  /\ navbarThrottle = FALSE
  /\ backToTopVisible = FALSE
  /\ backToTopThrottle = FALSE
  /\ lastEvent = "none"

MainIdle ==
  /\ mainPc = "absent"
  /\ hovered = 0
  /\ tooltips = <<>>
  /\ tooltipTimers = {}
  /\ tooltipsMade = 0
  /\ activeModals = {}
  /\ bodyOverflow = ""

FilterAll == <<"a", "l", "l">>

\* The data-filter values of the page's filter buttons.
FilterValues ==
  {FilterAll,
   <<"w", "e", "b", "-", "d", "e", "v">>,
   <<"l", "i", "f", "e">>,
   <<"n", "e", "w", "s">>}

\* The constructor's options.postsPerPage and options.previewCount, 0 for an
\* option that is not given.
OptionSets ==
  {[postsPerPage |-> n, isPreview |-> FALSE, previewCount |-> 0] :
     n \in 0..MaxPerPage}
    \cup {[postsPerPage |-> n, isPreview |-> TRUE, previewCount |-> c] :
            n \in 0..MaxPerPage, c \in 0..MaxPreview}

\* The constructor: x || default for the two counts.
Construct(o) ==
  [postsPerPage |-> IF o.postsPerPage # 0 THEN o.postsPerPage ELSE DefaultPostsPerPage,
   isPreview    |-> o.isPreview,
   previewCount |-> IF o.previewCount # 0 THEN o.previewCount ELSE DefaultPreviewCount]

Min(a, b) == IF a < b THEN a ELSE b

FiveMin == <<"5", " ", "m", "i", "n">>

\* showLoading, showEmpty, showError: the one child each writes.
LoadingState == [kind |-> "loading-state"]
EmptyState == [kind |-> "empty-state"]
ErrorState == [kind |-> "error-state", message |-> "load-failed", retry |-> TRUE]

\* createPostCard: the article element, one field for every place the template
\* writes a post field to.
CreatePostCard(post) ==
  [kind            |-> "blog-card",
   animateIn       |-> FALSE,
   datasetCategory |-> Slug(post.category),
   hasImage        |-> post.image # <<>>,
   imgSrc          |-> IF post.image # <<>> THEN post.image ELSE <<>>,
   imgAlt          |-> IF post.image # <<>> THEN EscapeHtml(post.title) ELSE <<>>,
   placeholder     |-> IF post.image # <<>> THEN <<>> ELSE CharAt0(post.category),
   hrefId          |-> IdToString(post.id),
   category        |-> EscapeHtml(post.category),
   date            |-> FormatDate(post.date),
   readTime        |-> IF post.readTime # <<>> THEN post.readTime ELSE FiveMin,
   title           |-> EscapeHtml(post.title),
   excerpt         |-> EscapeHtml(post.excerpt),
   tags            |-> [i \in 1..Len(post.tags) |-> EscapeHtml(post.tags[i])]]

\* createPostCard over the post universe, evaluated once.
CardOf == [post \in PostUniverse |-> CreatePostCard(post)]

\* updateLoadMoreButton
UpdateLoadMoreButton(lm, o, currentEndIndex, filtered) ==
  IF ~lm.present \/ o.isPreview THEN lm
  ELSE IF currentEndIndex >= Len(filtered)
       THEN [lm EXCEPT !.display = "none"]
       ELSE [lm EXCEPT !.display = "block"]

\* A variant of the skip test that is off by one page.
AlreadyRenderedOffByOne(append, index, page, o) ==
  append /\ index < page * o.postsPerPage

\* The test of render's loop: the post at (0-based) index is skipped.
AlreadyRendered(append, index, page, o) ==
  append /\ index < (page - 1) * o.postsPerPage

\* render(append): the container's children, the load-more control and whether
\* animateNewCards was called, from the state render reads.
Render(cont, lm, o, filtered, page, append) ==
  LET endIndex    == IF o.isPreview THEN o.previewCount ELSE page * o.postsPerPage
      postsToShow == SubSeq(filtered, 1, Min(endIndex, Len(filtered)))
      cleared     == IF append THEN cont ELSE <<>>
      kept        == {i \in 1..Len(postsToShow) : ~AlreadyRendered(append, i - 1, page, o)}
      first       == Len(postsToShow) - Cardinality(kept)
      fragment    == [j \in 1..Cardinality(kept) |-> CardOf[postsToShow[first + j]]]
  IN IF postsToShow = <<>>
     THEN [container |-> <<EmptyState>>, loadMore |-> lm, animate |-> FALSE]
     ELSE [container |-> cleared \o fragment,
           loadMore  |-> UpdateLoadMoreButton(lm, o, endIndex, filtered),
           animate   |-> TRUE]

\* A variant of the filter test that looks at the category only.
PostMatchesCategoryOnly(post, filter) == Slug(post.category) = filter

\* The predicate of setFilter's posts.filter(...).
PostMatches(post, filter) ==
  \/ Slug(post.category) = filter
  \/ \E i \in 1..Len(post.tags) : Slug(post.tags[i]) = filter

\* PostMatches over the post universe and the page's filter values, evaluated
\* once.
MatchTable == [post \in PostUniverse, filter \in FilterValues |-> PostMatches(post, filter)]

\* Array.prototype.filter with PostMatches.
RECURSIVE FilterPosts(_, _)
FilterPosts(all, filter) ==
  IF all = <<>> THEN <<>>
  ELSE (IF MatchTable[Head(all), filter] THEN <<Head(all)>> ELSE <<>>)
       \o FilterPosts(Tail(all), filter)

\* The fetch settles: the rest of loadPosts(), then setupFilters(),
\* setupLoadMore() and render() of init().
BlogFetchSettles ==
  /\ blogPc = "fetching"
  /\ LET data       == FetchJSON(response)
         sortThrows == HasPosts(data) /\ data.postsKind # "array"
         loaded     == HasPosts(data) /\ data.postsKind = "array"
         sorted     == IF loaded THEN SortByDate(data.posts) ELSE posts
         filtered   == IF loaded THEN sorted ELSE filteredPosts
         afterLoad  == IF sortThrows THEN <<ErrorState>> ELSE container
         r          == Render(afterLoad, loadMore, options, filtered, currentPage, FALSE)
     IN /\ posts' = sorted
        /\ filteredPosts' = filtered
        /\ errorShown' = sortThrows
        /\ container' = r.container
        /\ loadMore' = r.loadMore
        /\ animPending' = (animPending \/ r.animate)
  /\ blogPc' = "ready"
  /\ clickListeners' = clickListeners + 1
  /\ UNCHANGED <<options, response, currentFilter, currentPage, activeButtons,
                 activations>>
  /\ UNCHANGED detailVars
  /\ UNCHANGED introVars
  /\ UNCHANGED <<pageEnv, scrollVars, navigationVars, mainVars>>

\* A click on the filter button with data-filter = filter: setFilter(filter),
\* then the buttons' active state, in every listener that setupFilters() has
\* added; a second run of the same listener finds the state the first left
\* and leaves it as it is.
FilterClick(filter) ==
  /\ blogPc = "ready"
  /\ LET filtered == IF filter = FilterAll THEN posts ELSE FilterPosts(posts, filter)
         r        == Render(container, loadMore, options, filtered, 1, FALSE)
     IN /\ filteredPosts' = filtered
        /\ container' = r.container
        /\ loadMore' = r.loadMore
        /\ animPending' = (animPending \/ r.animate)
  /\ currentFilter' = filter
  /\ currentPage' = 1
  /\ activeButtons' = {filter}
  /\ activations' = 0
  /\ UNCHANGED <<options, response, blogPc, posts, errorShown>>
  /\ UNCHANGED detailVars
  /\ UNCHANGED introVars
  /\ UNCHANGED pageVars

\* The n click listeners of the load-more button run one after the other,
\* each doing currentPage++ and render(true); r is what the ones before have
\* rendered and page the currentPage they left.
RECURSIVE LoadMoreListeners(_, _, _)
LoadMoreListeners(n, r, page) ==
  IF n = 0 THEN r
  ELSE LET x == Render(r.container, r.loadMore, options, filteredPosts, page + 1, TRUE)
       IN LoadMoreListeners(n - 1,
                            [container |-> x.container, loadMore |-> x.loadMore,
                             animate |-> (r.animate \/ x.animate)],
                            page + 1)

\* A click on the load-more button, which a user can only reach while the
\* control is displayed: currentPage++, render(true), in every listener that
\* setupLoadMore() has added.
LoadMoreClick ==
  /\ blogPc = "ready"
  /\ loadMore.present
  /\ loadMore.display # "none"
  /\ currentPage + clickListeners <= MaxPage
  /\ LET r == LoadMoreListeners(clickListeners,
                                [container |-> container, loadMore |-> loadMore,
                                 animate |-> FALSE],
                                currentPage)
     IN /\ container' = r.container
        /\ loadMore' = r.loadMore
        /\ animPending' = (animPending \/ r.animate)
  /\ currentPage' = currentPage + clickListeners
  /\ activations' = activations + 1
  /\ UNCHANGED <<options, response, blogPc, posts, filteredPosts, currentFilter,
                 activeButtons, errorShown>>
  /\ UNCHANGED detailVars
  /\ UNCHANGED introVars
  /\ UNCHANGED pageVars

\* The timers of animateNewCards fire: every card of the container that lacks
\* 'animate-in' gets it (the 100 ms stagger between the cards is not kept).
AnimateCards ==
  /\ animPending
  /\ animPending' = FALSE
  /\ container' = [i \in 1..Len(container) |->
                     IF container[i].kind = "blog-card"
                     THEN [container[i] EXCEPT !.animateIn = TRUE]
                     ELSE container[i]]
  /\ UNCHANGED <<options, response, blogPc, posts, filteredPosts, currentFilter,
                 currentPage, loadMore, activeButtons, activations, errorShown>>
  /\ UNCHANGED detailVars
  /\ UNCHANGED introVars
  /\ UNCHANGED pageVars


\* ------------------------------------------------------------------ detail

OptionalElements ==
  {".post-header", ".post-featured-image", ".post-tags", "meta-description",
   "og:title", "og:description", "og:image", ".nav-prev", ".nav-next"}

\* The pages the script runs on: with every optional element, with none, and
\* with or without the header alone.
Layouts ==
  {OptionalElements, {}, {".post-header"}, OptionalElements \ {".post-header"}}

\* The id values of the query string: no id parameter (get returns null), an
\* empty one, and some texts.
UrlIds ==
  {[present |-> FALSE, value |-> <<>>]}
    \cup {[present |-> TRUE, value |-> v] :
            v \in {<<>>, <<"3">>, <<"1", "2">>, <<"<", "x">>, <<"9">>}}

SiteTitleSuffix ==
  <<" ", "|", " ", "L", "e", "o", "n", "i", "c", "'", "s", " ", "W", "o", "r", "l", "d">>

\* A text the page's markup set, and one the script wrote.
Untouched == [written |-> FALSE, value |-> <<>>]
Written(v) == [written |-> TRUE, value |-> v]

NoPost == [found |-> FALSE, post |-> PostA]
Found(p) == [found |-> TRUE, post |-> p]

\* showLoading and showError of SinglePostLoader; the error state carries the
\* link back to blog.html.
PostLoadingState ==
  [kind |-> "loading-state", message |-> "", backLink |-> FALSE, html |-> <<>>,
   excerpt |-> <<>>]
PostErrorState(message) ==
  [kind |-> "error-state", message |-> message, backLink |-> TRUE, html |-> <<>>,
   excerpt |-> <<>>]

\* render's content: post.content as it is, or the escaped excerpt in a <p>.
PostContentOf(post) ==
  IF post.content # <<>>
  THEN [kind |-> "content", message |-> "", backLink |-> FALSE,
        html |-> post.content, excerpt |-> <<>>]
  ELSE [kind |-> "excerpt", message |-> "", backLink |-> FALSE,
        html |-> <<>>, excerpt |-> EscapeHtml(post.excerpt)]

BlankHeader ==
  [written |-> FALSE, category |-> <<>>, date |-> [day |-> 0, month |-> 0, year |-> 0],
   readTime |-> <<>>, title |-> <<>>, authorAlt |-> <<>>, author |-> <<>>]

\* render's header markup, one field for every place a post field is written.
PostHeaderOf(post) ==
  [written   |-> TRUE,
   category  |-> EscapeHtml(post.category),
   date      |-> FormatDate(post.date),
   readTime  |-> IF post.readTime # <<>> THEN post.readTime ELSE FiveMin,
   title     |-> EscapeHtml(post.title),
   authorAlt |-> EscapeHtml(post.author),
   author    |-> EscapeHtml(post.author)]

BlankImage == [written |-> FALSE, src |-> <<>>, alt |-> <<>>, display |-> ""]

BlankTags == [written |-> FALSE, tags |-> <<>>]

BlankMeta ==
  [description |-> Untouched, ogTitle |-> Untouched, ogDescription |-> Untouched,
   ogImage |-> Untouched]

BlankLink == [written |-> FALSE, hrefId |-> <<>>, text |-> <<>>, visibility |-> ""]

\* updateMetaTags
UpdateMetaTags(meta, lay, post) ==
  [description   |-> IF "meta-description" \in lay THEN Written(post.excerpt)
                     ELSE meta.description,
   ogTitle       |-> IF "og:title" \in lay THEN Written(post.title) ELSE meta.ogTitle,
   ogDescription |-> IF "og:description" \in lay THEN Written(post.excerpt)
                     ELSE meta.ogDescription,
   ogImage       |-> IF post.image # <<>> /\ "og:image" \in lay THEN Written(post.image)
                     ELSE meta.ogImage]

\* The predicate of loadPost's find: post.id.toString() === id.toString().
IdMatches(post, id) == IdToString(post.id) = id

\* A variant of find that returns the last match.
FindPostLast(all, id) ==
  LET hits == {i \in 1..Len(all) : IdMatches(all[i], id)}
  IN IF hits = {} THEN NoPost
     ELSE Found(all[CHOOSE i \in hits : \A j \in hits : j <= i])

\* Array.prototype.find with IdMatches: the first match, or undefined.
FindPost(all, id) ==
  LET hits == {i \in 1..Len(all) : IdMatches(all[i], id)}
  IN IF hits = {} THEN NoPost
     ELSE Found(all[CHOOSE i \in hits : \A j \in hits : i <= j])

\* A variant of loadPost that falls back to the first post when none matches.
LoadPostOrFirst(r, id) ==
  LET data == FetchJSON(r)
  IN IF HasPosts(data) /\ data.postsKind = "array"
     THEN IF FindPost(data.posts, id).found \/ data.posts = <<>>
          THEN FindPost(data.posts, id)
          ELSE Found(data.posts[1])
     ELSE NoPost

\* loadPost: the post found, or null/undefined: when the document is null or
\* has no posts, when nothing matches, and when find throws (posts is no array)
\* and the error is caught.
LoadPost(r, id) ==
  LET data == FetchJSON(r)
  IN IF HasPosts(data) /\ data.postsKind = "array" THEN FindPost(data.posts, id)
     ELSE NoPost

\* The fetch of loadPost settles: the rest of init(), that is render(post) up
\* to the fetch of setupNavigation and updateMetaTags(post), or showError.
PostFetchSettles ==
  /\ postPc = "fetching"
  /\ postPc' = "done"
  /\ LET hit == LoadPost(response, urlId.value)
         post == hit.post
     IN IF hit.found
        THEN /\ documentTitle' = Written(post.title \o SiteTitleSuffix)
             /\ postHeader' = IF ".post-header" \in layout THEN PostHeaderOf(post)
                              ELSE postHeader
             /\ featuredImage' =
                  IF ".post-featured-image" \in layout /\ post.image # <<>>
                  THEN [featuredImage EXCEPT !.written = TRUE, !.src = post.image,
                                             !.alt = EscapeHtml(post.title)]
                  ELSE IF ".post-featured-image" \in layout
                       THEN [featuredImage EXCEPT !.display = "none"]
                       ELSE featuredImage
             /\ postContent' = PostContentOf(post)
             /\ postTags' = IF ".post-tags" \in layout
                            THEN [written |-> TRUE,
                                  tags |-> [i \in 1..Len(post.tags) |->
                                              EscapeHtml(post.tags[i])]]
                            ELSE postTags
             /\ navPc' = "fetching"
             /\ metaTags' = UpdateMetaTags(metaTags, layout, post)
             /\ renderedPost' = Found(post)
        ELSE /\ postContent' = PostErrorState("post-not-found")
             /\ UNCHANGED <<documentTitle, postHeader, featuredImage, postTags, navPc,
                            metaTags, renderedPost>>
  /\ UNCHANGED <<urlId, layout, response, navLinks>>
  /\ UNCHANGED listingVars
  /\ UNCHANGED introVars
  /\ UNCHANGED pageVars

\* One link of setupNavigation: the neighbour's id and title, or hidden.
NavLink(link, present, hasNeighbour, neighbour, isPrev) ==
  IF present /\ hasNeighbour
  THEN [link EXCEPT !.written = TRUE, !.hrefId = IdToString(neighbour.id),
                    !.text = IF isPrev THEN <<"<-", " ">> \o neighbour.title
                             ELSE neighbour.title \o <<" ", "->">>]
  ELSE IF present THEN [link EXCEPT !.visibility = "hidden"]
       ELSE link

\* The (0-based) findIndex of the current post in the sorted posts, -1 if none.
FindIndex(sorted, id) ==
  LET hits == {i \in 1..Len(sorted) : IdToString(sorted[i].id) = IdToString(id)}
  IN IF hits = {} THEN -1 ELSE (CHOOSE i \in hits : \A j \in hits : i <= j) - 1

\* The positions (0-based, as in the source) of the posts the two links take:
\* the sorted array is newest first, so the older neighbour is one further on.
PrevIndexNewer(currentIndex) == currentIndex - 1

PrevIndex(currentIndex) == currentIndex + 1

NextIndex(currentIndex) == currentIndex - 1

\* The fetch of setupNavigation settles (it may fail though the first fetch
\* did not): the links, unless the document has no posts or sort throws.
NavFetchSettles ==
  /\ navPc = "fetching"
  /\ \E r \in {response, [kind |-> "network-error", posts |-> <<>>]} :
       LET data == FetchJSON(r)
       IN IF HasPosts(data) /\ data.postsKind = "array"
          THEN /\ navPc' = "done"
               /\ LET sorted == SortByDate(data.posts)
                      idx    == FindIndex(sorted, renderedPost.post.id)
                      prevAt == PrevIndex(idx) + 1
                      nextAt == NextIndex(idx) + 1
                      hasPrev == prevAt \in 1..Len(sorted)
                      hasNext == nextAt \in 1..Len(sorted)
                  IN navLinks' =
                    [prev |-> NavLink(navLinks.prev, ".nav-prev" \in layout, hasPrev,
                                      IF hasPrev THEN sorted[prevAt] ELSE PostA, TRUE),
                     next |-> NavLink(navLinks.next, ".nav-next" \in layout, hasNext,
                                      IF hasNext THEN sorted[nextAt] ELSE PostA, FALSE)]
          ELSE /\ navPc' = "returned"
               /\ UNCHANGED navLinks
  /\ UNCHANGED <<urlId, layout, response, postPc, postContent, postHeader,
                 featuredImage, postTags, documentTitle, metaTags, renderedPost>>
  /\ UNCHANGED listingVars
  /\ UNCHANGED introVars
  /\ UNCHANGED pageVars

\* ------------------------------------------------------------ intro loader

\* this.config of StarfieldLoader, and the delay of the timer that removes
\* the overlay after the fade-out.
MaxDuration == 2500

MinDisplayTime == 800

FadeOutDuration == 400

RemoveDelay == 100

\* A timer that is not pending.
NoTimer == -1

\* Time is watched in steps of at most TimeStep milliseconds; a session is
\* MaxPageLoads page loads.
TimeStep == 200

MaxPageLoads == 2

Max(a, b) == IF a >= b THEN a ELSE b

\* The earliest due time among timers (NoTimer if none is pending).
Earliest(timers) ==
  LET pending == timers \ {NoTimer}
  IN IF pending = {} THEN NoTimer
     ELSE CHOOSE t \in pending : \A u \in pending : t <= u

\* The time after a step of d milliseconds: timers fire when they are due, so
\* time does not pass a pending timer.
TimeAfter(d, timers) ==
  IF Earliest(timers) = NoTimer THEN now + d ELSE Min(now + d, Earliest(timers))

LoaderPages ==
  [skipBtn : BOOLEAN, reducedMotion : BOOLEAN, urlSkip : BOOLEAN,
   readyComplete : BOOLEAN]

Keys == {"Escape", "Enter"}

\* The sessionStorage of the browser: it works; or it is full and setItem
\* throws; or access to it is denied and getItem and setItem throw.
StorageModes == {"works", "full", "disabled"}

GetItemThrows(mode) == mode = "disabled"

SetItemThrows(mode) == mode # "works"

\* StarfieldLoader.shouldSkip: the session item is set, or the URL says skip=true.
ShouldSkip(page, storage) == storage.loaderShown \/ page.urlSkip

\* StarfieldLoader.prefersReducedMotion.
PrefersReducedMotion(page) == page.reducedMotion

\* onResourcesLoaded: the delay of its timer, at time t.
RemainingTimeNone(st, t) == 0

RemainingTime(st, t) ==
  LET elapsed == t - st.startTime
  IN Max(0, MinDisplayTime - elapsed)

\* setupFallbackTimer at time t: the due time of its timer.
FallbackTimeNever(t) == NoTimer

FallbackTime(t) == t + MaxDuration

\* The assignment this.state.isComplete = true of complete().
MarkCompleteForgets(st) == st

MarkComplete(st) == [st EXCEPT !.isComplete = TRUE]

\* The constructor and init() at time t: skipImmediately(), or the body
\* class, the starfield, the fallback timer and waitForResources().
LoaderConstruct(page, storage, mode, t) ==
  LET threw == GetItemThrows(mode)
      skip  == ~threw /\ ShouldSkip(page, storage)
      st    == [isComplete |-> FALSE, isSkipped |-> FALSE, resourcesLoaded |-> FALSE,
                startTime |-> t]
      shown == ~threw /\ ~skip
      ready == shown /\ page.readyComplete
  IN [pc |-> IF threw THEN "threw" ELSE IF skip THEN "bypassed" ELSE "started",
      state |-> [st EXCEPT !.resourcesLoaded = ready],
      fallbackTimer |-> IF shown THEN FallbackTime(t) ELSE NoTimer,
      minDisplayTimer |-> IF ready THEN t + RemainingTime(st, t) ELSE NoTimer,
      loadFired |-> page.readyComplete,
      overlay |-> [inDocument |-> ~skip, fadeOut |-> FALSE, hidden |-> FALSE],
      bodyLoaderActive |-> shown,
      starfield |-> shown /\ ~PrefersReducedMotion(page),
      contentRevealed |-> IF skip THEN 1 ELSE 0]

\* A page load that begins at time t in a session whose storage is storage.
LoaderPageLoad(page, storage, mode, t) ==
  LET c == LoaderConstruct(page, storage, mode, t)
  IN /\ loaderPage' = page
     /\ loaderPc' = c.pc
     /\ state' = c.state
     /\ fallbackTimer' = c.fallbackTimer
     /\ minDisplayTimer' = c.minDisplayTimer
     /\ fadeOutTimer' = NoTimer
     /\ removeTimer' = NoTimer
     /\ loadFired' = c.loadFired
     /\ loaderOverlay' = c.overlay
     /\ bodyLoaderActive' = c.bodyLoaderActive
     /\ starfield' = c.starfield
     /\ contentRevealed' = c.contentRevealed
     /\ loaderCompleteEvents' = 0
     /\ completeEnteredAt' = NoTimer
     /\ completeRuns' = 0
     /\ displayedLoads' = displayedLoads + (IF c.pc = "started" THEN 1 ELSE 0)

\* What complete() and skip() assign.
completeVars ==
  <<state, sessionStorage, starfield, loaderOverlay, fadeOutTimer, completeRuns,
    completeEnteredAt>>

\* complete(), called with this.state = st: a setItem that throws ends it
\* right after the assignment of isComplete.
Complete(st) ==
  /\ completeEnteredAt' = (IF completeEnteredAt = NoTimer THEN now ELSE completeEnteredAt)
  /\ IF st.isComplete
     THEN /\ state' = st
          /\ UNCHANGED <<sessionStorage, starfield, loaderOverlay, fadeOutTimer,
                         completeRuns>>
     ELSE /\ state' = MarkComplete(st)
          /\ completeRuns' = completeRuns + 1
          /\ IF SetItemThrows(storageMode)
             THEN UNCHANGED <<sessionStorage, starfield, loaderOverlay, fadeOutTimer>>
             ELSE /\ sessionStorage' = [loaderShown |-> TRUE]
                  /\ starfield' = FALSE
                  /\ loaderOverlay' = [loaderOverlay EXCEPT !.fadeOut = TRUE]
                  /\ fadeOutTimer' = now + FadeOutDuration

\* skip(): it marks the state and the session, and calls complete(); a
\* setItem that throws ends it before the call.
Skip ==
  IF state.isComplete \/ state.isSkipped
  THEN UNCHANGED completeVars
  ELSE IF SetItemThrows(storageMode)
       THEN /\ state' = [state EXCEPT !.isSkipped = TRUE]
            /\ UNCHANGED <<sessionStorage, starfield, loaderOverlay, fadeOutTimer,
                           completeRuns, completeEnteredAt>>
       ELSE Complete([state EXCEPT !.isSkipped = TRUE])

\* The callback of the fallback timer and of the minimum-display timer.
CompleteUnlessDone ==
  IF ~state.isComplete /\ ~state.isSkipped
  THEN Complete(state)
  ELSE UNCHANGED completeVars

\* A click on the skip button, while the overlay shows it.
SkipClick ==
  /\ loaderPc = "started"
  /\ loaderPage.skipBtn
  /\ loaderOverlay.inDocument /\ ~loaderOverlay.hidden
  /\ Skip
  /\ UNCHANGED <<now, loaderPage, loaderPc, fallbackTimer, minDisplayTimer, removeTimer,
                 loadFired, bodyLoaderActive, contentRevealed, loaderCompleteEvents,
                 pageLoads, displayedLoads>>
  /\ UNCHANGED <<response, listingVars, detailVars, welcomeVars>>
  /\ UNCHANGED pageVars

\* A keydown on the document: the listener stays for the life of the page.
LoaderKeyDown(key) ==
  /\ loaderPc = "started"
  /\ IF key = "Escape" /\ ~state.isComplete THEN Skip ELSE UNCHANGED completeVars
  /\ UNCHANGED <<now, loaderPage, loaderPc, fallbackTimer, minDisplayTimer, removeTimer,
                 loadFired, bodyLoaderActive, contentRevealed, loaderCompleteEvents,
                 pageLoads, displayedLoads>>
  /\ UNCHANGED <<response, listingVars, detailVars, welcomeVars>>
  /\ UNCHANGED pageVars

\* The window load event: onResourcesLoaded() sets the minimum-display timer.
WindowLoad ==
  /\ loaderPc = "started"
  /\ ~loadFired
  /\ loadFired' = TRUE
  /\ state' = [state EXCEPT !.resourcesLoaded = TRUE]
  /\ minDisplayTimer' = now + RemainingTime(state, now)
  /\ UNCHANGED <<now, loaderPage, sessionStorage, loaderPc, fallbackTimer, fadeOutTimer,
                 removeTimer, loaderOverlay, bodyLoaderActive, starfield,
                 contentRevealed, loaderCompleteEvents, completeEnteredAt, completeRuns,
                 pageLoads, displayedLoads>>
  /\ UNCHANGED <<response, listingVars, detailVars, welcomeVars>>
  /\ UNCHANGED pageVars

\* The timer of onResourcesLoaded() fires.
MinDisplayTimerFires ==
  /\ minDisplayTimer # NoTimer
  /\ minDisplayTimer <= now
  /\ minDisplayTimer' = NoTimer
  /\ CompleteUnlessDone
  /\ UNCHANGED <<now, loaderPage, loaderPc, fallbackTimer, removeTimer, loadFired,
                 bodyLoaderActive, contentRevealed, loaderCompleteEvents, pageLoads,
                 displayedLoads>>
  /\ UNCHANGED <<response, listingVars, detailVars, welcomeVars>>
  /\ UNCHANGED pageVars

\* The timer of setupFallbackTimer() fires.
FallbackTimerFires ==
  /\ fallbackTimer # NoTimer
  /\ fallbackTimer <= now
  /\ fallbackTimer' = NoTimer
  /\ CompleteUnlessDone
  /\ UNCHANGED <<now, loaderPage, loaderPc, minDisplayTimer, removeTimer, loadFired,
                 bodyLoaderActive, contentRevealed, loaderCompleteEvents, pageLoads,
                 displayedLoads>>
  /\ UNCHANGED <<response, listingVars, detailVars, welcomeVars>>
  /\ UNCHANGED pageVars

\* The timer of complete() fires: the overlay is hidden, the body class goes,
\* the content is revealed and 'loaderComplete' is dispatched.
FadeOutTimerFires ==
  /\ fadeOutTimer # NoTimer
  /\ fadeOutTimer <= now
  /\ fadeOutTimer' = NoTimer
  /\ loaderOverlay' = [loaderOverlay EXCEPT !.hidden = TRUE]
  /\ bodyLoaderActive' = FALSE
  /\ contentRevealed' = contentRevealed + 1
  /\ loaderCompleteEvents' = loaderCompleteEvents + 1
  /\ removeTimer' = now + RemoveDelay
  /\ UNCHANGED <<now, loaderPage, sessionStorage, loaderPc, state, fallbackTimer,
                 minDisplayTimer, loadFired, starfield, completeEnteredAt, completeRuns,
                 pageLoads, displayedLoads>>
  /\ UNCHANGED <<response, listingVars, detailVars, welcomeVars>>
  /\ UNCHANGED pageVars

\* The last timer fires: the overlay is removed from the document.
RemoveTimerFires ==
  /\ removeTimer # NoTimer
  /\ removeTimer <= now
  /\ removeTimer' = NoTimer
  /\ loaderOverlay' = [loaderOverlay EXCEPT !.inDocument = FALSE]
  /\ UNCHANGED <<now, loaderPage, sessionStorage, loaderPc, state, fallbackTimer,
                 minDisplayTimer, fadeOutTimer, loadFired, bodyLoaderActive, starfield,
                 contentRevealed, loaderCompleteEvents, completeEnteredAt, completeRuns,
                 pageLoads, displayedLoads>>
  /\ UNCHANGED <<response, listingVars, detailVars, welcomeVars>>
  /\ UNCHANGED pageVars

loaderTimers == {fallbackTimer, minDisplayTimer, fadeOutTimer, removeTimer}

\* Time passes on a page with the loader, up to the next timer that is due.
LoaderTimePasses ==
  /\ loaderPc = "started"
  /\ Earliest(loaderTimers) # NoTimer
  /\ \A t \in loaderTimers \ {NoTimer} : now < t
  /\ now' = TimeAfter(TimeStep, loaderTimers)
  /\ UNCHANGED loaderVars
  /\ UNCHANGED <<response, listingVars, detailVars, welcomeVars>>
  /\ UNCHANGED pageVars

\* The user leaves the page, whatever the loader is at, and a page of the same
\* session loads: its timers and listeners go with the old document.
LoaderNavigate(page) ==
  /\ loaderPc # "absent"
  /\ pageLoads < MaxPageLoads
  /\ pageLoads' = pageLoads + 1
  /\ LoaderPageLoad(page, sessionStorage, storageMode, now)
  /\ UNCHANGED <<now, sessionStorage>>
  /\ UNCHANGED <<response, listingVars, detailVars, welcomeVars>>
  /\ UNCHANGED pageVars

\* -------------------------------------------------------- welcome animation

\* The waits of startAnimation(), in order, and the delay of fadeOut()'s timer.
WelcomeWaits == <<100, 400, 500, 500, 1300>>

WelcomeFadeDuration == 700

\* The life of the 'welcomeSkipped' item: 24 hours in milliseconds.
SkipLifetime == 24 * 60 * 60 * 1000

\* The welcome animation is watched over MaxWelcomeLoads page loads.
MaxWelcomeLoads == 2

\* The times between leaving a page and the load of the next one.
NavigateDelays == {1, SkipLifetime - 1, SkipLifetime}

WelcomePages == [skipBtn : BOOLEAN, reducedMotion : BOOLEAN, urlSkip : BOOLEAN]

NoSkipData == [present |-> FALSE, expires |-> 0]

\* WelcomeAnimation.shouldSkipAnimation at time t.
ShouldSkipAnimationInclusive(page, storage, t) ==
  \/ storage.present /\ t <= storage.expires
  \/ page.reducedMotion
  \/ page.urlSkip

ShouldSkipAnimation(page, storage, t) ==
  \/ storage.present /\ t < storage.expires
  \/ page.reducedMotion
  \/ page.urlSkip

\* The constructor and init() at time t: skipImmediately() with its
\* revealMainContent(), or the body class, startAnimation() up to its first
\* wait, and setupSkipButton().
WelcomeConstruct(page, storage, t) ==
  LET skip == ShouldSkipAnimation(page, storage, t)
  IN [pc |-> IF skip THEN "bypassed" ELSE "running",
      step |-> IF skip THEN 0 ELSE 1,
      timer |-> IF skip THEN NoTimer ELSE t + WelcomeWaits[1],
      escapeListener |-> ~skip /\ page.skipBtn,
      overlay |-> [inDocument |-> ~skip, fadeOut |-> FALSE],
      bodyWelcomeActive |-> ~skip,
      mainRevealed |-> IF skip THEN 1 ELSE 0,
      welcomeCompleteEvents |-> IF skip THEN 1 ELSE 0]

\* A page load that begins at time t with the local storage storage.
WelcomePageLoad(page, storage, t) ==
  LET c == WelcomeConstruct(page, storage, t)
  IN /\ welcomePage' = page
     /\ welcomePc' = c.pc
     /\ welcomeStep' = c.step
     /\ hasSkipped' = FALSE
     /\ animationComplete' = FALSE
     /\ welcomeTimer' = c.timer
     /\ welcomeFadeTimer' = NoTimer
     /\ escapeListener' = c.escapeListener
     /\ welcomeOverlay' = c.overlay
     /\ bodyWelcomeActive' = c.bodyWelcomeActive
     /\ mainRevealed' = c.mainRevealed
     /\ welcomeCompleteEvents' = c.welcomeCompleteEvents
     /\ welcomeLoadedAt' = t
     /\ lastKey' = "none"

\* What skip() and fadeOut() assign.
skipVars ==
  <<hasSkipped, localStorage, lastSkipAt, animationComplete, welcomeOverlay,
    welcomeFadeTimer>>

\* fadeOut(), called with this.hasSkipped = skipped.
FadeOut(skipped) ==
  IF skipped \/ animationComplete
  THEN UNCHANGED <<animationComplete, welcomeOverlay, welcomeFadeTimer>>
  ELSE /\ animationComplete' = TRUE
       /\ welcomeOverlay' = [welcomeOverlay EXCEPT !.fadeOut = TRUE]
       /\ welcomeFadeTimer' = now + WelcomeFadeDuration

\* WelcomeAnimation.skip(): it sets hasSkipped, stores the expiry and calls
\* fadeOut().
WelcomeSkip ==
  IF hasSkipped \/ animationComplete
  THEN UNCHANGED skipVars
  ELSE /\ hasSkipped' = TRUE
       /\ localStorage' = [present |-> TRUE, expires |-> now + SkipLifetime]
       /\ lastSkipAt' = now
       /\ FadeOut(TRUE)

\* A click on the skip button (setupSkipButton registered the listener).
WelcomeSkipClick ==
  /\ welcomePc \in {"running", "returned"}
  /\ welcomePage.skipBtn
  /\ welcomeOverlay.inDocument
  /\ WelcomeSkip
  /\ UNCHANGED <<now, welcomePage, welcomePc, welcomeStep, welcomeTimer, escapeListener,
                 bodyWelcomeActive, mainRevealed, welcomeCompleteEvents,
                 welcomeLoadedAt, lastKey, welcomeLoads>>
  /\ UNCHANGED <<response, listingVars, detailVars, loaderVars>>
  /\ UNCHANGED pageVars

\* A keydown on the document: the listener, registered once-only and only on
\* a page with a skip button, is removed by the first keydown of any key.
WelcomeKeyDown(key) ==
  /\ welcomePc \in {"running", "returned"}
  /\ lastKey' = key
  /\ escapeListener' = FALSE
  /\ IF escapeListener /\ key = "Escape" THEN WelcomeSkip ELSE UNCHANGED skipVars
  /\ UNCHANGED <<now, welcomePage, welcomePc, welcomeStep, welcomeTimer,
                 bodyWelcomeActive, mainRevealed, welcomeCompleteEvents,
                 welcomeLoadedAt, welcomeLoads>>
  /\ UNCHANGED <<response, listingVars, detailVars, loaderVars>>
  /\ UNCHANGED pageVars

\* The wait startAnimation() is in ends: it returns if skipped, else goes on
\* to its next wait or, after the last one, calls fadeOut() and returns.
WelcomeWaitEnds ==
  /\ welcomePc = "running"
  /\ welcomeTimer <= now
  /\ IF hasSkipped
     THEN /\ welcomePc' = "returned"
          /\ welcomeTimer' = NoTimer
          /\ UNCHANGED <<welcomeStep, animationComplete, welcomeOverlay,
                         welcomeFadeTimer>>
     ELSE IF welcomeStep < Len(WelcomeWaits)
          THEN /\ welcomeStep' = welcomeStep + 1
               /\ welcomeTimer' = now + WelcomeWaits[welcomeStep + 1]
               /\ UNCHANGED <<welcomePc, animationComplete, welcomeOverlay,
                              welcomeFadeTimer>>
          ELSE /\ welcomePc' = "returned"
               /\ welcomeTimer' = NoTimer
               /\ FadeOut(hasSkipped)
               /\ UNCHANGED welcomeStep
  /\ UNCHANGED <<now, welcomePage, localStorage, hasSkipped, escapeListener,
                 bodyWelcomeActive, mainRevealed, welcomeCompleteEvents,
                 welcomeLoadedAt, lastSkipAt, lastKey, welcomeLoads>>
  /\ UNCHANGED <<response, listingVars, detailVars, loaderVars>>
  /\ UNCHANGED pageVars

\* The timer of fadeOut() fires: the overlay is removed, the body class goes,
\* and revealMainContent() dispatches 'welcomeComplete'.
WelcomeFadeTimerFires ==
  /\ welcomeFadeTimer # NoTimer
  /\ welcomeFadeTimer <= now
  /\ welcomeFadeTimer' = NoTimer
  /\ welcomeOverlay' = [welcomeOverlay EXCEPT !.inDocument = FALSE]
  /\ bodyWelcomeActive' = FALSE
  /\ mainRevealed' = mainRevealed + 1
  /\ welcomeCompleteEvents' = welcomeCompleteEvents + 1
  /\ UNCHANGED <<now, welcomePage, localStorage, welcomePc, welcomeStep, hasSkipped,
                 animationComplete, welcomeTimer, escapeListener, welcomeLoadedAt,
                 lastSkipAt, lastKey, welcomeLoads>>
  /\ UNCHANGED <<response, listingVars, detailVars, loaderVars>>
  /\ UNCHANGED pageVars

welcomeTimers == {welcomeTimer, welcomeFadeTimer}

\* Time passes on a page with the welcome animation, up to the next timer:
\* what the animation does depends on time at its timers only.
WelcomeTimePasses ==
  /\ welcomePc \in {"running", "returned"}
  /\ Earliest(welcomeTimers) # NoTimer
  /\ \A t \in welcomeTimers \ {NoTimer} : now < t
  /\ now' = Earliest(welcomeTimers)
  /\ UNCHANGED welcomeVars
  /\ UNCHANGED <<response, listingVars, detailVars, loaderVars>>
  /\ UNCHANGED pageVars

\* The user leaves the page, whatever the animation is at, and d milliseconds
\* later a page with the animation loads in the same browser.
WelcomeNavigate(page, d) ==
  /\ welcomePc # "absent"
  /\ welcomeLoads < MaxWelcomeLoads
  /\ welcomeLoads' = welcomeLoads + 1
  /\ now' = now + d
  /\ WelcomePageLoad(page, localStorage, now + d)
  /\ UNCHANGED <<localStorage, lastSkipAt>>
  /\ UNCHANGED <<response, listingVars, detailVars, loaderVars>>
  /\ UNCHANGED pageVars

\* --------------------------------------------------------- scroll animations

\* What the actions of one page component leave alone.
exceptScroll ==
  <<response, listingVars, detailVars, introVars, pageEnv, clickListeners, navigationVars,
    mainVars>>

exceptNavigation ==
  <<response, listingVars, detailVars, introVars, pageEnv, clickListeners, scrollVars,
    mainVars>>

exceptMain ==
  <<response, listingVars, detailVars, introVars, pageEnv, clickListeners, scrollVars,
    navigationVars>>

\* A JavaScript number that is an integer or NaN.
NaN == [nan |-> TRUE, value |-> 0]

Num(v) == [nan |-> FALSE, value |-> v]

IsDigit(c) == \E d \in 1..Len(DigitChars) : DigitChars[d] = c

\* The text without its leading whitespace.
RECURSIVE TrimStart(_)
TrimStart(s) ==
  IF s # <<>> /\ Head(s) \in WhitespaceChars THEN TrimStart(Tail(s)) ELSE s

\* The longest prefix of the text that is made of decimal digits.
RECURSIVE DigitPrefix(_)
DigitPrefix(s) ==
  IF s # <<>> /\ IsDigit(Head(s)) THEN <<Head(s)>> \o DigitPrefix(Tail(s)) ELSE <<>>

\* parseInt(text, 10): leading whitespace is skipped, a sign is taken, then the
\* digits up to the first other character; NaN if there is no digit.
ParseInt(text) ==
  LET t      == TrimStart(text)
      signed == t # <<>> /\ Head(t) \in {"-", "+"}
      digits == DigitPrefix(IF signed THEN Tail(t) ELSE t)
  IN IF digits = <<>> THEN NaN
     ELSE IF signed /\ Head(t) = "-" THEN Num(0 - DigitsToNat(digits))
          ELSE Num(DigitsToNat(digits))

\* The text of a number in a template literal.
NumberToString(x) ==
  IF x.nan THEN <<"N", "a", "N">>
  ELSE IF x.value < 0 THEN <<"-">> \o NatToString(0 - x.value)
       ELSE NatToString(x.value)

\* The progress of a counter's animation is watched in ProgressSteps equal
\* parts of its duration.
ProgressSteps == 4

Pow4(x) == x * x * x * x

\* Math.floor(target * easeOutQuart(q / ProgressSteps)), with
\* easeOutQuart(t) = 1 - (1 - t)^4.
CurrentValue(target, q) ==
  IF target.nan THEN NaN
  ELSE Num((target.value * (Pow4(ProgressSteps) - Pow4(ProgressSteps - q)))
             \div Pow4(ProgressSteps))

\* The template `${prefix}${value}${suffix}` of animateCount.
CounterText(c, value) == c.prefix \o NumberToString(value) \o c.suffix

\* The template `${prefix}${target}${suffix}` of showAllImmediately, whose
\* target is the attribute's text.
ImmediateText(c) == c.prefix \o c.count \o c.suffix

\* The data-count values of the page's counters, and their data-prefix and
\* data-suffix (an absent one is '').
CountTexts ==
  {<<"4", "2">>, <<"0", "0", "7">>, <<"1", ",", "0", "0", "0">>,
   <<"1", "2", ".", "5">>, <<"a", "b", "c">>, <<"-", "3">>, <<>>, <<" ", "5">>}

CountPrefixes == {<<>>, <<"$">>}

CountSuffixes == {<<>>, <<"+">>}

\* The counters of a page: none, or one with any dataset.
CounterDatasets ==
  {<<>>} \cup {<<[count |-> c, prefix |-> p, suffix |-> x]>> :
                 c \in CountTexts, p \in CountPrefixes, x \in CountSuffixes}

\* The number of .animate-on-scroll elements, and of children of the page's
\* .stagger-children container.
ElementCount == 2

ScrollPages == [reducedMotion : BOOLEAN]

\* utils.prefersReducedMotion.
UtilsPrefersReducedMotionNever(page) == FALSE

UtilsPrefersReducedMotion(page) == page.reducedMotion

\* The constructor and init(): showAllImmediately(), or the observers of
\* setupIntersectionObserver() and setupCountAnimations().
ScrollConstruct(page, datasets) ==
  LET reduced == UtilsPrefersReducedMotion(page)
      style   == IF reduced THEN [opacity |-> "1", transform |-> "none"]
                 ELSE [opacity |-> "", transform |-> ""]
  IN [observers |-> IF reduced THEN 0
                    ELSE 2 + (IF datasets = <<>> THEN 0 ELSE 1),
      animatedElements |->
        [i \in 1..ElementCount |->
           [observed |-> ~reduced, animateIn |-> FALSE, style |-> style]],
      staggerContainers |->
        <<[observed |-> ~reduced, animateIn |-> FALSE,
           children |-> [i \in 1..ElementCount |-> style]]>>,
      countElements |->
        [i \in 1..Len(datasets) |->
           [count |-> datasets[i].count, prefix |-> datasets[i].prefix,
            suffix |-> datasets[i].suffix, observed |-> ~reduced,
            text |-> IF reduced THEN ImmediateText(datasets[i]) ELSE <<"0">>,
            frame |-> FALSE, progress |-> 0, ended |-> FALSE]]]

\* An .animate-on-scroll element comes into view.
ElementIntersects(i) ==
  /\ scrollPc = "constructed"
  /\ i \in 1..Len(animatedElements)
  /\ animatedElements[i].observed
  /\ animatedElements' =
       [animatedElements EXCEPT ![i].animateIn = TRUE, ![i].observed = FALSE]
  /\ UNCHANGED <<scrollPc, scrollPage, observers, staggerContainers, countElements>>
  /\ UNCHANGED exceptScroll

\* The .stagger-children container comes into view.
StaggerIntersects ==
  /\ scrollPc = "constructed"
  /\ staggerContainers # <<>>
  /\ staggerContainers[1].observed
  /\ staggerContainers' =
       [staggerContainers EXCEPT ![1].animateIn = TRUE, ![1].observed = FALSE]
  /\ UNCHANGED <<scrollPc, scrollPage, observers, animatedElements, countElements>>
  /\ UNCHANGED exceptScroll

\* A [data-count] element comes into view: animateCount() requests a frame.
CounterIntersects(i) ==
  /\ scrollPc = "constructed"
  /\ i \in 1..Len(countElements)
  /\ countElements[i].observed
  /\ countElements' =
       [countElements EXCEPT ![i].observed = FALSE, ![i].frame = TRUE]
  /\ UNCHANGED <<scrollPc, scrollPage, observers, animatedElements,
                 staggerContainers>>
  /\ UNCHANGED exceptScroll

\* updateCount runs in a frame, q parts of the duration after the start: the
\* eased value, and at the end of the duration the target.
CounterFrame(i, q) ==
  /\ scrollPc = "constructed"
  /\ i \in 1..Len(countElements)
  /\ countElements[i].frame
  /\ q >= countElements[i].progress
  /\ LET c      == countElements[i]
         target == ParseInt(c.count)
     IN countElements' =
          [countElements EXCEPT
             ![i].progress = q,
             ![i].frame = (q < ProgressSteps),
             ![i].ended = (q >= ProgressSteps),
             ![i].text = IF q < ProgressSteps
                         THEN CounterText(c, CurrentValue(target, q))
                         ELSE CounterText(c, target)]
  /\ UNCHANGED <<scrollPc, scrollPage, observers, animatedElements,
                 staggerContainers>>
  /\ UNCHANGED exceptScroll

\* ------------------------------------------------------------------ navigation

ScrollThreshold == 50

BackToTopThreshold == 300

DesktopWidth == 1024

\* The scroll offsets and window widths of the model.
Offsets == {0, 40, 60, 200, 400}

Widths == {800, 1024, 1280}

\* Which of the elements Navigation looks up the page has.
NavigationPages ==
  [navbar : BOOLEAN, hamburger : BOOLEAN, mobileMenu : BOOLEAN,
   mobileOverlay : BOOLEAN, backToTop : BOOLEAN]

\* setupMobileMenu() returns before adding a listener unless the page has the
\* hamburger and the mobile menu.
MenuListening == navigationPc = "constructed" /\ navPage.hamburger /\ navPage.mobileMenu

\* openMenu(): an absent element (?.) is skipped.
OpenMenu ==
  /\ isMenuOpen' = TRUE
  /\ menuClasses' = [hamburger |-> navPage.hamburger, mobileMenu |-> navPage.mobileMenu,
                     mobileOverlay |-> navPage.mobileOverlay, body |-> TRUE]

CloseMenu ==
  /\ isMenuOpen' = FALSE
  /\ menuClasses' = [hamburger |-> FALSE, mobileMenu |-> FALSE,
                     mobileOverlay |-> FALSE, body |-> FALSE]

ToggleMenuOpens ==
  OpenMenu

ToggleMenu ==
  IF isMenuOpen THEN CloseMenu ELSE OpenMenu

scrollState ==
  <<pageYOffset, navbarScrolled, navbarThrottle, backToTopVisible, backToTopThrottle>>

HamburgerClick ==
  /\ MenuListening
  /\ ToggleMenu
  /\ lastEvent' = "hamburger"
  /\ UNCHANGED <<navigationPc, navPage, innerWidth, resizeTimer, scrollState>>
  /\ UNCHANGED exceptNavigation

OverlayClick ==
  /\ MenuListening
  /\ navPage.mobileOverlay
  /\ CloseMenu
  /\ lastEvent' = "overlay"
  /\ UNCHANGED <<navigationPc, navPage, innerWidth, resizeTimer, scrollState>>
  /\ UNCHANGED exceptNavigation

\* A click on a link of the mobile menu.
MenuLinkClick ==
  /\ MenuListening
  /\ CloseMenu
  /\ lastEvent' = "link"
  /\ UNCHANGED <<navigationPc, navPage, innerWidth, resizeTimer, scrollState>>
  /\ UNCHANGED exceptNavigation

\* keydown: Escape closes an open menu.
NavigationKeyDown(key) ==
  /\ MenuListening
  /\ IF key = "Escape" /\ isMenuOpen
     THEN CloseMenu
     ELSE UNCHANGED <<isMenuOpen, menuClasses>>
  /\ lastEvent' = key
  /\ UNCHANGED <<navigationPc, navPage, innerWidth, resizeTimer, scrollState>>
  /\ UNCHANGED exceptNavigation

\* resize: the debounced handler's timer is set again.
WindowResize(width) ==
  /\ navigationPc = "constructed"
  /\ width # innerWidth
  /\ innerWidth' = width
  /\ resizeTimer' = MenuListening
  /\ lastEvent' = "resize"
  /\ UNCHANGED <<navigationPc, navPage, isMenuOpen, menuClasses, scrollState>>
  /\ UNCHANGED exceptNavigation

\* The debounced resize handler runs.
ResizeTimerFires ==
  /\ resizeTimer
  /\ resizeTimer' = FALSE
  /\ IF innerWidth >= DesktopWidth /\ isMenuOpen
     THEN CloseMenu /\ lastEvent' = "resizeClosed"
     ELSE UNCHANGED <<isMenuOpen, menuClasses>> /\ lastEvent' = "resizeTimer"
  /\ UNCHANGED <<navigationPc, navPage, innerWidth, scrollState>>
  /\ UNCHANGED exceptNavigation

\* utils.throttle: the call is passed on only when no earlier call is within
\* its limit; nothing is called afterwards for a call that was dropped.
ThrottlePasses(inThrottle) == ~inThrottle

\* The scroll listeners of setupNavbarScroll() and setupBackToTop() with the
\* offset y.
HandleScroll(y) ==
  /\ pageYOffset' = y
  /\ IF ThrottlePasses(navbarThrottle)
     THEN /\ navbarScrolled' = (navPage.navbar /\ y > ScrollThreshold)
          /\ navbarThrottle' = TRUE
     ELSE UNCHANGED <<navbarScrolled, navbarThrottle>>
  /\ IF navPage.backToTop /\ ThrottlePasses(backToTopThrottle)
     THEN /\ backToTopVisible' = (y > BackToTopThreshold)
          /\ backToTopThrottle' = TRUE
     ELSE UNCHANGED <<backToTopVisible, backToTopThrottle>>

\* The window is scrolled to another offset.
WindowScroll(y) ==
  /\ navigationPc = "constructed"
  /\ y # pageYOffset
  /\ HandleScroll(y)
  /\ lastEvent' = "scroll"
  /\ UNCHANGED <<navigationPc, navPage, isMenuOpen, menuClasses, innerWidth, resizeTimer>>
  /\ UNCHANGED exceptNavigation

\* A click on the back-to-top control scrolls the window to the top.
BackToTopClick ==
  /\ navigationPc = "constructed"
  /\ navPage.backToTop
  /\ pageYOffset # 0
  /\ HandleScroll(0)
  /\ lastEvent' = "backToTop"
  /\ UNCHANGED <<navigationPc, navPage, isMenuOpen, menuClasses, innerWidth, resizeTimer>>
  /\ UNCHANGED exceptNavigation

\* The timers of the two throttles end.
NavbarThrottleEnds ==
  /\ navbarThrottle
  /\ navbarThrottle' = FALSE
  /\ lastEvent' = "throttle"
  /\ UNCHANGED <<navigationPc, navPage, isMenuOpen, menuClasses, innerWidth, resizeTimer,
                 pageYOffset, navbarScrolled, backToTopVisible, backToTopThrottle>>
  /\ UNCHANGED exceptNavigation

BackToTopThrottleEnds ==
  /\ backToTopThrottle
  /\ backToTopThrottle' = FALSE
  /\ lastEvent' = "throttle"
  /\ UNCHANGED <<navigationPc, navPage, isMenuOpen, menuClasses, innerWidth, resizeTimer,
                 pageYOffset, navbarScrolled, navbarThrottle, backToTopVisible>>
  /\ UNCHANGED exceptNavigation

\* ------------------------------------------------------------- mount elements

\* The elements BlogSystem, SinglePostLoader and StarfieldLoader look up before
\* they do anything.
MountSelectors == {"#blog-grid", "#post-content", "#loader-overlay"}

\* The pages of the site have at most one of them.
MountSets == {{}} \cup {{selector} : selector \in MountSelectors}

\* document.querySelector(selector) / getElementById finds the element.
MountedAlways(m, selector) == TRUE

Mounted(m, selector) == selector \in m

\* The options and responses of the listing where mounts are looked at.
MountOptions == {o \in OptionSets : ~o.isPreview}

MountResponses == {r \in Responses : Len(r.posts) <= 2}

\* ---------------------------------------------------------------- init() again

\* init() is run at most MaxInits times on one instance.
MaxInits == 2

\* window.blogSystem.init() on the instance whose init() has finished (what
\* the retry button of showError calls): showLoading(), and loadPosts() awaits
\* the fetch again.
InitAgain ==
  /\ blogPc = "ready"
  /\ clickListeners < MaxInits
  /\ blogPc' = "fetching"
  /\ container' = <<LoadingState>>
  /\ UNCHANGED <<options, response, posts, filteredPosts, currentFilter, currentPage,
                 loadMore, activeButtons, animPending, activations, errorShown>>
  /\ UNCHANGED detailVars
  /\ UNCHANGED introVars
  /\ UNCHANGED pageVars

\* The listings on which init() is run again: full pages of one or two posts.
RetryOptions == {o \in OptionSets : ~o.isPreview /\ o.postsPerPage \in {1, 2}}

\* ------------------------------------------------------- tooltips and modals

\* The delays of showTooltip's and hideTooltip's timers.
TooltipShowDelay == 10

TooltipRemoveDelay == 200

\* The [data-tooltip] elements (each with a text) and the modals of the page,
\* in document order.
TooltipElements == 1..2

Modals == 1..2

\* Tooltip elements are created at most MaxTooltips times, and time is
\* watched in steps of at most TooltipStep.
MaxTooltips == 3

TooltipStep == 50

\* A pending timer: the time left, what it does and the tooltip element its
\* callback holds.
Timer(delay, kind, n) == [delay |-> delay, kind |-> kind, n |-> n]

\* The sequence without the tooltip element n.
RECURSIVE WithoutTooltip(_, _)
WithoutTooltip(seq, n) ==
  IF seq = <<>> THEN <<>>
  ELSE IF Head(seq).n = n THEN WithoutTooltip(Tail(seq), n)
       ELSE <<Head(seq)>> \o WithoutTooltip(Tail(seq), n)

modalState == <<activeModals, bodyOverflow>>

tooltipState == <<hovered, tooltips, tooltipTimers, tooltipsMade>>

\* mouseenter on a [data-tooltip] element: showTooltip appends a new element
\* with id 'active-tooltip' to body and sets the timer of its 'visible' class.
MouseEnter(e) ==
  /\ mainPc = "initialized"
  /\ hovered = 0
  /\ tooltipsMade < MaxTooltips
  /\ hovered' = e
  /\ tooltipsMade' = tooltipsMade + 1
  /\ tooltips' = Append(tooltips, [n |-> tooltipsMade + 1, visible |-> FALSE])
  /\ tooltipTimers' = tooltipTimers \cup {Timer(TooltipShowDelay, "show", tooltipsMade + 1)}
  /\ UNCHANGED <<mainPc, modalState>>
  /\ UNCHANGED exceptMain

\* document.getElementById('active-tooltip'): the first element of the
\* document with that id.
ActiveTooltip(seq) == Head(seq)

\* mouseleave on the element the pointer is over: hideTooltip takes 'visible'
\* from the element getElementById finds and sets the timer of its removal.
MouseLeave ==
  /\ mainPc = "initialized"
  /\ hovered # 0
  /\ hovered' = 0
  /\ IF tooltips = <<>>
     THEN UNCHANGED <<tooltips, tooltipTimers>>
     ELSE LET found == ActiveTooltip(tooltips)
          IN /\ tooltips' = [i \in 1..Len(tooltips) |->
                               IF tooltips[i].n = found.n
                               THEN [tooltips[i] EXCEPT !.visible = FALSE]
                               ELSE tooltips[i]]
             /\ tooltipTimers' =
                  tooltipTimers \cup {Timer(TooltipRemoveDelay, "remove", found.n)}
  /\ UNCHANGED <<mainPc, tooltipsMade, modalState>>
  /\ UNCHANGED exceptMain

\* A timer that is due fires: its tooltip element gets 'visible', or is
\* removed from the document.
TooltipTimerFires(timer) ==
  /\ timer \in tooltipTimers
  /\ timer.delay = 0
  /\ tooltipTimers' = tooltipTimers \ {timer}
  /\ tooltips' = IF timer.kind = "show"
                 THEN [i \in 1..Len(tooltips) |->
                         IF tooltips[i].n = timer.n
                         THEN [tooltips[i] EXCEPT !.visible = TRUE]
                         ELSE tooltips[i]]
                 ELSE WithoutTooltip(tooltips, timer.n)
  /\ UNCHANGED <<mainPc, hovered, tooltipsMade, modalState>>
  /\ UNCHANGED exceptMain

\* Time passes, up to the next timer that is due.
TooltipTimePasses ==
  /\ tooltipTimers # {}
  /\ \A timer \in tooltipTimers : timer.delay > 0
  /\ LET next == CHOOSE d \in {timer.delay : timer \in tooltipTimers} :
                   \A timer \in tooltipTimers : d <= timer.delay
         step == Min(TooltipStep, next)
     IN tooltipTimers' = {Timer(timer.delay - step, timer.kind, timer.n) :
                            timer \in tooltipTimers}
  /\ UNCHANGED <<mainPc, hovered, tooltips, tooltipsMade, modalState>>
  /\ UNCHANGED exceptMain

\* openModal and closeModal.
OpenModal(modal) ==
  /\ activeModals' = activeModals \cup {modal}
  /\ bodyOverflow' = "hidden"

CloseModal(modal) ==
  /\ activeModals' = activeModals \ {modal}
  /\ bodyOverflow' = ""

\* A click on a [data-modal] trigger of the modal: by pointer, or by keyboard
\* on a trigger that another modal covers.
ModalTriggerClick(modal) ==
  /\ mainPc = "initialized"
  /\ OpenModal(modal)
  /\ UNCHANGED <<mainPc, tooltipState>>
  /\ UNCHANGED exceptMain

\* A click on the overlay of a modal that is shown (e.target === modal).
ModalOverlayClick(modal) ==
  /\ mainPc = "initialized"
  /\ modal \in activeModals
  /\ CloseModal(modal)
  /\ UNCHANGED <<mainPc, tooltipState>>
  /\ UNCHANGED exceptMain

\* A click on the .modal-close button of a modal that is shown.
ModalCloseClick(modal) ==
  /\ mainPc = "initialized"
  /\ modal \in activeModals
  /\ CloseModal(modal)
  /\ UNCHANGED <<mainPc, tooltipState>>
  /\ UNCHANGED exceptMain

\* keydown: Escape closes the first modal with 'active', if there is one.
MainKeyDown(key) ==
  /\ mainPc = "initialized"
  /\ IF key = "Escape" /\ activeModals # {}
     THEN CloseModal(CHOOSE modal \in activeModals : \A other \in activeModals : modal <= other)
     ELSE UNCHANGED modalState
  /\ UNCHANGED <<mainPc, tooltipState>>
  /\ UNCHANGED exceptMain

\* --------------------------------------------------------- specifications

vars == <<response, listingVars, detailVars, introVars, pageVars>>

\* The response of a page that fetches no posts document.
NoResponse == [kind |-> "network-error", posts |-> <<>>]

\* The state of an intro component on a page it is not on.
LoaderIdle ==
  /\ loaderPage = [skipBtn |-> FALSE, reducedMotion |-> FALSE, urlSkip |-> FALSE,
                   readyComplete |-> FALSE]
  /\ sessionStorage = [loaderShown |-> FALSE]
  /\ loaderPc = "absent"
  /\ state = [isComplete |-> FALSE, isSkipped |-> FALSE, resourcesLoaded |-> FALSE,
              startTime |-> 0]
  /\ fallbackTimer = NoTimer
  /\ minDisplayTimer = NoTimer
  /\ fadeOutTimer = NoTimer
  /\ removeTimer = NoTimer
  /\ loadFired = FALSE
  /\ loaderOverlay = [inDocument |-> FALSE, fadeOut |-> FALSE, hidden |-> FALSE]
  /\ bodyLoaderActive = FALSE
  /\ starfield = FALSE
  /\ contentRevealed = 0
  /\ loaderCompleteEvents = 0
  /\ completeEnteredAt = NoTimer
  /\ completeRuns = 0
  /\ pageLoads = 0
  /\ displayedLoads = 0

WelcomeIdle ==
  /\ welcomePage = [skipBtn |-> FALSE, reducedMotion |-> FALSE, urlSkip |-> FALSE]
  /\ localStorage = NoSkipData
  /\ welcomePc = "absent"
  /\ welcomeStep = 0
  /\ hasSkipped = FALSE
  /\ animationComplete = FALSE
  /\ welcomeTimer = NoTimer
  /\ welcomeFadeTimer = NoTimer
  /\ escapeListener = FALSE
  /\ welcomeOverlay = [inDocument |-> FALSE, fadeOut |-> FALSE]
  /\ bodyWelcomeActive = FALSE
  /\ mainRevealed = 0
  /\ welcomeCompleteEvents = 0
  /\ welcomeLoadedAt = 0
  /\ lastSkipAt = NoTimer
  /\ lastKey = "none"
  /\ welcomeLoads = 0

IntroIdle == now = 0 /\ LoaderIdle /\ WelcomeIdle

\* The detail page's state on a listing page, and the listing's on a detail
\* page: nothing of the other script's runs there.
DetailIdle ==
  /\ urlId = [present |-> FALSE, value |-> <<>>]
  /\ layout = {}
  /\ postPc = "absent"
  /\ postContent = PostLoadingState
  /\ postHeader = BlankHeader
  /\ featuredImage = BlankImage
  /\ postTags = BlankTags
  /\ documentTitle = Untouched
  /\ metaTags = BlankMeta
  /\ navPc = "idle"
  /\ navLinks = [prev |-> BlankLink, next |-> BlankLink]
  /\ renderedPost = NoPost

BlogIdle ==
  /\ options = Construct([postsPerPage |-> 0, isPreview |-> FALSE, previewCount |-> 0])
  /\ blogPc = "absent"
  /\ posts = <<>>
  /\ filteredPosts = <<>>
  /\ currentFilter = FilterAll
  /\ currentPage = 1
  /\ container = <<>>
  /\ loadMore = [present |-> FALSE, display |-> ""]
  /\ activeButtons = {}
  /\ animPending = FALSE
  /\ activations = 0
  /\ errorShown = FALSE

\* The state right after the constructor: init() has run showLoading() and
\* awaits the fetch of loadPosts().
BlogInit ==
  /\ options \in {Construct(o) : o \in OptionSets}
  /\ response \in Responses
  /\ blogPc = "fetching"
  /\ posts = <<>>
  /\ filteredPosts = <<>>
  /\ currentFilter = FilterAll
  /\ currentPage = 1
  /\ container = <<LoadingState>>
  /\ loadMore \in {[present |-> FALSE, display |-> ""],
                   [present |-> TRUE, display |-> ""],
                   [present |-> TRUE, display |-> "none"]}
  /\ activeButtons = {}
  /\ animPending = FALSE
  /\ activations = 0
  /\ errorShown = FALSE
  /\ DetailIdle
  /\ IntroIdle
  /\ mounts = {"#blog-grid"}
  /\ storageMode = "works"
  /\ clickListeners = 0
  /\ ScrollIdle
  /\ NavigationIdle
  /\ MainIdle

BlogNext ==
  \/ BlogFetchSettles
  \/ \E filter \in FilterValues : FilterClick(filter)
  \/ LoadMoreClick
  \/ AnimateCards

\* A page with the listing (#blog-grid, or #blog-preview in preview mode).
BlogSpec == BlogInit /\ [][BlogNext]_vars

\* The state right after the constructor: init() has read the id and either
\* shown the error and returned, or run showLoading() and awaits loadPost().
DetailInit ==
  /\ urlId \in UrlIds
  /\ layout \in Layouts
  /\ response \in Responses
  /\ postPc = (IF urlId.value = <<>> THEN "done" ELSE "fetching")
  /\ postContent = (IF urlId.value = <<>> THEN PostErrorState("no-post-given")
                    ELSE PostLoadingState)
  /\ postHeader = BlankHeader
  /\ featuredImage = BlankImage
  /\ postTags = BlankTags
  /\ documentTitle = Untouched
  /\ metaTags = BlankMeta
  /\ navPc = "idle"
  /\ navLinks = [prev |-> BlankLink, next |-> BlankLink]
  /\ renderedPost = NoPost
  /\ BlogIdle
  /\ IntroIdle
  /\ mounts = {"#post-content"}
  /\ storageMode = "works"
  /\ clickListeners = 0
  /\ ScrollIdle
  /\ NavigationIdle
  /\ MainIdle

DetailNext ==
  \/ PostFetchSettles
  \/ NavFetchSettles

\* A listing page whose markup keeps the #load-more control hidden until the
\* script shows it.
BlogInitControlHidden == BlogInit /\ loadMore.display = "none"

BlogSpecControlHidden == BlogInitControlHidden /\ [][BlogNext]_vars

\* A page with #post-content.
DetailSpec == DetailInit /\ [][DetailNext]_vars

\* The first page load of a session, at time 0, right after the constructor
\* of StarfieldLoader: the session storage is empty.
LoaderInit ==
  \E page \in LoaderPages :
    LET c == LoaderConstruct(page, [loaderShown |-> FALSE], "works", 0)
    IN /\ now = 0
       /\ loaderPage = page
       /\ sessionStorage = [loaderShown |-> FALSE]
       /\ loaderPc = c.pc
       /\ state = c.state
       /\ fallbackTimer = c.fallbackTimer
       /\ minDisplayTimer = c.minDisplayTimer
       /\ fadeOutTimer = NoTimer
       /\ removeTimer = NoTimer
       /\ loadFired = c.loadFired
       /\ loaderOverlay = c.overlay
       /\ bodyLoaderActive = c.bodyLoaderActive
       /\ starfield = c.starfield
       /\ contentRevealed = c.contentRevealed
       /\ loaderCompleteEvents = 0
       /\ completeEnteredAt = NoTimer
       /\ completeRuns = 0
       /\ pageLoads = 1
       /\ displayedLoads = (IF c.pc = "started" THEN 1 ELSE 0)
       /\ response = NoResponse
       /\ BlogIdle
       /\ DetailIdle
       /\ WelcomeIdle
       /\ mounts = {"#loader-overlay"}
       /\ storageMode = "works"
       /\ clickListeners = 0
       /\ ScrollIdle
       /\ NavigationIdle
       /\ MainIdle

LoaderNext ==
  \/ SkipClick
  \/ \E key \in Keys : LoaderKeyDown(key)
  \/ WindowLoad
  \/ MinDisplayTimerFires
  \/ FallbackTimerFires
  \/ FadeOutTimerFires
  \/ RemoveTimerFires
  \/ LoaderTimePasses
  \/ \E page \in LoaderPages : LoaderNavigate(page)

\* The pages of one session, each with #loader-overlay.
LoaderSpec == LoaderInit /\ [][LoaderNext]_vars

\* The first page load with #welcome-overlay, at time 0, right after the
\* constructor of WelcomeAnimation: nothing is stored yet.
WelcomeInit ==
  \E page \in WelcomePages :
    LET c == WelcomeConstruct(page, NoSkipData, 0)
    IN /\ now = 0
       /\ welcomePage = page
       /\ localStorage = NoSkipData
       /\ welcomePc = c.pc
       /\ welcomeStep = c.step
       /\ hasSkipped = FALSE
       /\ animationComplete = FALSE
       /\ welcomeTimer = c.timer
       /\ welcomeFadeTimer = NoTimer
       /\ escapeListener = c.escapeListener
       /\ welcomeOverlay = c.overlay
       /\ bodyWelcomeActive = c.bodyWelcomeActive
       /\ mainRevealed = c.mainRevealed
       /\ welcomeCompleteEvents = c.welcomeCompleteEvents
       /\ welcomeLoadedAt = 0
       /\ lastSkipAt = NoTimer
       /\ lastKey = "none"
       /\ welcomeLoads = 1
       /\ response = NoResponse
       /\ BlogIdle
       /\ DetailIdle
       /\ LoaderIdle
       /\ mounts = {"#welcome-overlay"}
       /\ storageMode = "works"
       /\ clickListeners = 0
       /\ ScrollIdle
       /\ NavigationIdle
       /\ MainIdle

WelcomeNext ==
  \/ WelcomeSkipClick
  \/ \E key \in Keys : WelcomeKeyDown(key)
  \/ WelcomeWaitEnds
  \/ WelcomeFadeTimerFires
  \/ WelcomeTimePasses
  \/ \E page \in WelcomePages, d \in NavigateDelays : WelcomeNavigate(page, d)

\* The page loads of one browser, each with #welcome-overlay.
WelcomeSpec == WelcomeInit /\ [][WelcomeNext]_vars

\* A page right after the constructor of ScrollAnimations.
ScrollInit ==
  \E page \in ScrollPages, datasets \in CounterDatasets :
    LET c == ScrollConstruct(page, datasets)
    IN /\ scrollPc = "constructed"
       /\ scrollPage = page
       /\ observers = c.observers
       /\ animatedElements = c.animatedElements
       /\ staggerContainers = c.staggerContainers
       /\ countElements = c.countElements
       /\ response = NoResponse
       /\ mounts = {}
       /\ storageMode = "works"
       /\ clickListeners = 0
       /\ BlogIdle
       /\ DetailIdle
       /\ IntroIdle
       /\ NavigationIdle
       /\ MainIdle

ScrollNext ==
  \/ \E i \in 1..ElementCount : ElementIntersects(i)
  \/ StaggerIntersects
  \/ \E i \in 1..Len(countElements) : CounterIntersects(i)
  \/ \E i \in 1..Len(countElements), q \in 0..ProgressSteps : CounterFrame(i, q)

\* A page with animations.js.
ScrollSpec == ScrollInit /\ [][ScrollNext]_vars

\* A page right after the constructor of Navigation, at the top and with no
\* 'active' class in its markup.
NavigationInit ==
  \E page \in NavigationPages, width \in Widths :
    /\ navigationPc = "constructed"
    /\ navPage = page
    /\ isMenuOpen = FALSE
    /\ menuClasses = [hamburger |-> FALSE, mobileMenu |-> FALSE,
                      mobileOverlay |-> FALSE, body |-> FALSE]
    /\ innerWidth = width
    /\ resizeTimer = FALSE
    /\ pageYOffset = 0
    /\ navbarScrolled = FALSE
    /\ navbarThrottle = FALSE
    /\ backToTopVisible = FALSE
    /\ backToTopThrottle = FALSE
    /\ lastEvent = "none"
    /\ response = NoResponse
    /\ mounts = {}
    /\ storageMode = "works"
    /\ clickListeners = 0
    /\ BlogIdle
    /\ DetailIdle
    /\ IntroIdle
    /\ ScrollIdle
    /\ MainIdle

NavigationNext ==
  \/ HamburgerClick
  \/ OverlayClick
  \/ MenuLinkClick
  \/ \E key \in Keys : NavigationKeyDown(key)
  \/ \E width \in Widths : WindowResize(width)
  \/ ResizeTimerFires
  \/ \E y \in Offsets : WindowScroll(y)
  \/ BackToTopClick
  \/ NavbarThrottleEnds
  \/ BackToTopThrottleEnds

\* A page with the navigation script.
NavigationSpec == NavigationInit /\ [][NavigationNext]_vars

\* The first page load of a session in a browser whose sessionStorage works,
\* is full or is denied.
LoaderStorageInit ==
  \E page \in LoaderPages, mode \in StorageModes :
    LET c == LoaderConstruct(page, [loaderShown |-> FALSE], mode, 0)
    IN /\ now = 0
       /\ loaderPage = page
       /\ sessionStorage = [loaderShown |-> FALSE]
       /\ loaderPc = c.pc
       /\ state = c.state
       /\ fallbackTimer = c.fallbackTimer
       /\ minDisplayTimer = c.minDisplayTimer
       /\ fadeOutTimer = NoTimer
       /\ removeTimer = NoTimer
       /\ loadFired = c.loadFired
       /\ loaderOverlay = c.overlay
       /\ bodyLoaderActive = c.bodyLoaderActive
       /\ starfield = c.starfield
       /\ contentRevealed = c.contentRevealed
       /\ loaderCompleteEvents = 0
       /\ completeEnteredAt = NoTimer
       /\ completeRuns = 0
       /\ pageLoads = 1
       /\ displayedLoads = (IF c.pc = "started" THEN 1 ELSE 0)
       /\ response = NoResponse
       /\ BlogIdle
       /\ DetailIdle
       /\ WelcomeIdle
       /\ mounts = {"#loader-overlay"}
       /\ storageMode = mode
       /\ clickListeners = 0
       /\ ScrollIdle
       /\ NavigationIdle
       /\ MainIdle

\* The pages of one session, each with #loader-overlay, in any browser.
LoaderStorageSpec == LoaderStorageInit /\ [][LoaderNext]_vars

\* A page right after the three constructors have run on it, each finding its
\* mount element or not: a component that finds it is as in BlogInit,
\* DetailInit and LoaderStorageInit, one that does not has done nothing.
MountInit ==
  \E m \in MountSets, o \in MountOptions, r \in MountResponses, u \in UrlIds,
     l \in Layouts, page \in LoaderPages, mode \in StorageModes :
    LET c == LoaderConstruct(page, [loaderShown |-> FALSE], mode, 0)
    IN /\ mounts = m
       /\ storageMode = mode
       /\ clickListeners = 0
       /\ now = 0
       /\ response = (IF Mounted(m, "#blog-grid") \/ Mounted(m, "#post-content")
                      THEN r ELSE NoResponse)
       /\ IF Mounted(m, "#blog-grid")
          THEN /\ options = Construct(o)
               /\ blogPc = "fetching"
               /\ posts = <<>>
               /\ filteredPosts = <<>>
               /\ currentFilter = FilterAll
               /\ currentPage = 1
               /\ container = <<LoadingState>>
               /\ loadMore = [present |-> TRUE, display |-> ""]
               /\ activeButtons = {}
               /\ animPending = FALSE
               /\ activations = 0
               /\ errorShown = FALSE
          ELSE BlogIdle
       /\ IF Mounted(m, "#post-content")
          THEN /\ urlId = u
               /\ layout = l
               /\ postPc = (IF u.value = <<>> THEN "done" ELSE "fetching")
               /\ postContent = (IF u.value = <<>> THEN PostErrorState("no-post-given")
                                 ELSE PostLoadingState)
               /\ postHeader = BlankHeader
               /\ featuredImage = BlankImage
               /\ postTags = BlankTags
               /\ documentTitle = Untouched
               /\ metaTags = BlankMeta
               /\ navPc = "idle"
               /\ navLinks = [prev |-> BlankLink, next |-> BlankLink]
               /\ renderedPost = NoPost
          ELSE DetailIdle
       /\ IF Mounted(m, "#loader-overlay")
          THEN /\ loaderPage = page
               /\ sessionStorage = [loaderShown |-> FALSE]
               /\ loaderPc = c.pc
               /\ state = c.state
               /\ fallbackTimer = c.fallbackTimer
               /\ minDisplayTimer = c.minDisplayTimer
               /\ fadeOutTimer = NoTimer
               /\ removeTimer = NoTimer
               /\ loadFired = c.loadFired
               /\ loaderOverlay = c.overlay
               /\ bodyLoaderActive = c.bodyLoaderActive
               /\ starfield = c.starfield
               /\ contentRevealed = c.contentRevealed
               /\ loaderCompleteEvents = 0
               /\ completeEnteredAt = NoTimer
               /\ completeRuns = 0
               /\ pageLoads = 1
               /\ displayedLoads = (IF c.pc = "started" THEN 1 ELSE 0)
          ELSE LoaderIdle
       /\ WelcomeIdle
       /\ ScrollIdle
       /\ NavigationIdle
       /\ MainIdle

MountNext ==
  \/ BlogNext
  \/ DetailNext
  \/ LoaderNext

\* A page with any one of the three mount elements, or with none.
MountSpec == MountInit /\ [][MountNext]_vars

BlogRetryInit ==
  /\ BlogInit
  /\ options \in {Construct(o) : o \in RetryOptions}
  /\ loadMore = [present |-> TRUE, display |-> ""]

BlogRetryNext ==
  \/ BlogNext
  \/ InitAgain

\* A listing page on which init() may be run again.
BlogRetrySpec == BlogRetryInit /\ [][BlogRetryNext]_vars

\* The portfolio page right after the DOMContentLoaded handler of main.js:
\* no tooltip, no modal shown, body's overflow as the stylesheet has it.
MainInit ==
  /\ mainPc = "initialized"
  /\ hovered = 0
  /\ tooltips = <<>>
  /\ tooltipTimers = {}
  /\ tooltipsMade = 0
  /\ activeModals = {}
  /\ bodyOverflow = ""
  /\ response = NoResponse
  /\ mounts = {}
  /\ storageMode = "works"
  /\ clickListeners = 0
  /\ BlogIdle
  /\ DetailIdle
  /\ IntroIdle
  /\ ScrollIdle
  /\ NavigationIdle

MainNext ==
  \/ \E e \in TooltipElements : MouseEnter(e)
  \/ MouseLeave
  \/ \E timer \in tooltipTimers : TooltipTimerFires(timer)
  \/ TooltipTimePasses
  \/ \E modal \in Modals : ModalTriggerClick(modal)
  \/ \E modal \in Modals : ModalOverlayClick(modal)
  \/ \E modal \in Modals : ModalCloseClick(modal)
  \/ \E key \in Keys : MainKeyDown(key)

\* A page with main.js.
MainSpec == MainInit /\ [][MainNext]_vars

\* ------------------------------------------------------------------ claims

FilterLife == <<"l", "i", "f", "e">>

\* The positions of posts whose category slug or one of whose tag slugs is f.
MatchingPositions(f) ==
  {i \in 1..Len(posts) :
     \/ Slug(posts[i].category) = f
     \/ \E t \in 1..Len(posts[i].tags) : Slug(posts[i].tags[t]) = f}

\* The k-th smallest member of a set of positions.
KthOf(S, k) == CHOOSE i \in S : Cardinality({j \in S : j <= i}) = k

\* C1: whatever the posts and the filter, after setFilter the filtered posts are
\* all the sorted posts in their order when the filter is 'all', and otherwise
\* exactly the posts whose category slug equals the filter or that have a tag
\* whose slug equals it, in the relative order they have in the sorted posts.
C1_SetFilterSelectsMatching ==
  blogPc = "ready" =>
    IF currentFilter = FilterAll THEN filteredPosts = posts
    ELSE LET hits == MatchingPositions(currentFilter)
         IN /\ Len(filteredPosts) = Cardinality(hits)
            /\ \A k \in 1..Len(filteredPosts) : filteredPosts[k] = posts[KthOf(hits, k)]

\* A filter that keeps two of three posts, the second of them for a tag and
\* not for its category, and drops the post between them.
C1_Witness ==
  /\ blogPc = "ready"
  /\ currentFilter = FilterLife
  /\ posts = <<PostC, PostB, PostD>>
  /\ filteredPosts = <<PostC, PostD>>
  /\ Slug(PostD.category) # FilterLife

\* The cards among the container's children.
Cards == SelectSeq(container, LAMBDA c : c.kind = "blog-card")

\* C2: on a loaded listing the number of cards is min((n+1) * postsPerPage,
\* number of filtered posts), n the load-more activations since the last filter
\* change, and in preview mode min(previewCount, number of filtered posts).
C2_CardCount ==
  blogPc = "ready" =>
    Len(Cards) =
      IF options.isPreview THEN Min(options.previewCount, Len(filteredPosts))
      ELSE Min((activations + 1) * options.postsPerPage, Len(filteredPosts))

\* The end of the window render computes.
EndIndex ==
  IF options.isPreview THEN options.previewCount
  ELSE currentPage * options.postsPerPage

\* C3: after every render the #load-more control is hidden exactly when the
\* window covers the whole filtered set (an empty one included), and in preview
\* mode it is hidden in every state.
C3_LoadMoreHiddenIffCovered ==
  (blogPc = "ready" /\ loadMore.present) =>
    IF options.isPreview THEN loadMore.display = "none"
    ELSE (loadMore.display = "none") <=> (EndIndex >= Len(filteredPosts))

\* The cards of the filtered posts at the (0-based) indices lo .. hi-1.
CardsOfSlice(lo, hi) ==
  IF hi > lo THEN [j \in 1..(hi - lo) |-> CreatePostCard(filteredPosts[lo + j])]
  ELSE <<>>

\* A card as it was created, whatever the entrance animation did since.
AsCreated(card) == [card EXCEPT !.animateIn = FALSE]

\* C4: a load-more activation of a listing that is not a preview, moving to
\* page p, appends exactly the cards of the filtered posts at the indices
\* (p-1)*postsPerPage .. min(p*postsPerPage, total)-1, in order, and leaves what
\* the container held in place and unchanged; so the container always holds
\* each visible post once, in filtered order.
C4_LoadMoreAppendsSlice ==
  /\ [][(currentPage' = currentPage + 1 /\ ~options.isPreview) =>
          container' = container \o
            CardsOfSlice(currentPage * options.postsPerPage,
                         Min(currentPage' * options.postsPerPage, Len(filteredPosts)))]_vars
  /\ []((blogPc = "ready" /\ ~options.isPreview) =>
          /\ Len(Cards) = Min(currentPage * options.postsPerPage, Len(filteredPosts))
          /\ \A i \in 1..Len(Cards) : AsCreated(Cards[i]) = CreatePostCard(filteredPosts[i]))

\* Two load-more activations, one post a page: three cards, the first two
\* already animated in, the third new.
C4_Witness ==
  /\ ~options.isPreview
  /\ options.postsPerPage = 1
  /\ currentPage = 3
  /\ Len(container) = 3
  /\ container[1].animateIn /\ container[2].animateIn /\ ~container[3].animateIn

\* The position of a post in the fetched posts array.
DocumentPosition(post) == CHOOSE i \in 1..Len(response.posts) : response.posts[i] = post

\* C5: after loadPosts succeeds the posts are a permutation of the fetched
\* array in which a post with a later date comes before one with an earlier
\* date, and posts with equal dates keep their order of the document.
C5_SortedByDateDescendingStable ==
  (blogPc = "ready" /\ response.kind = "ok") =>
    /\ Len(posts) = Len(response.posts)
    /\ {posts[i] : i \in 1..Len(posts)} = {response.posts[i] : i \in 1..Len(response.posts)}
    /\ \A i, j \in 1..Len(posts) :
         i < j =>
           /\ DateValue(posts[i].date) >= DateValue(posts[j].date)
           /\ DateValue(posts[i].date) = DateValue(posts[j].date)
                => DocumentPosition(posts[i]) < DocumentPosition(posts[j])

\* A document whose oldest post comes first and that holds two posts of the
\* same instant, written differently: the sort moves the oldest behind them and
\* keeps the two in their order.
C5_Witness ==
  /\ blogPc = "ready"
  /\ response.kind = "ok"
  /\ response.posts = <<PostD, PostC, PostA>>
  /\ posts = <<PostC, PostA, PostD>>
  /\ PostC.date # PostA.date

\* The load failed: the fetch or the parse did, or the document has no usable
\* posts array.
LoadFailed == response.kind # "ok"

\* C6: when loading the posts document fails, the container shows the error
\* state once init() has finished, not the loading or the empty state.
C6_LoadFailureShowsError ==
  (blogPc = "ready" /\ LoadFailed) => container = <<ErrorState>>

\* The posts a card of the listing may show.
CardShowsEscapedText(card, post) ==
  /\ card.title = EscapeHtml(post.title)
  /\ card.excerpt = EscapeHtml(post.excerpt)
  /\ card.category = EscapeHtml(post.category)
  /\ card.imgAlt = (IF card.hasImage THEN EscapeHtml(post.title) ELSE <<>>)
  /\ card.tags = [i \in 1..Len(post.tags) |-> EscapeHtml(post.tags[i])]
  /\ card.placeholder = (IF card.hasImage THEN <<>> ELSE EscapeHtml(CharAt0(post.category)))

\* C7: in every card and every fragment of the detail view, text of a post's
\* title, excerpt, category, tags or author is HTML-escaped where it occurs,
\* the placeholder letter taken from the category included.
C7_PostTextIsEscaped ==
  /\ \A i \in 1..Len(container) :
       container[i].kind = "blog-card" =>
         \E k \in 1..Len(posts) :
           /\ container[i].hrefId = IdToString(posts[k].id)
           /\ CardShowsEscapedText(container[i], posts[k])
  /\ (renderedPost.found /\ postHeader.written) =>
       /\ postHeader.title = EscapeHtml(renderedPost.post.title)
       /\ postHeader.category = EscapeHtml(renderedPost.post.category)
       /\ postHeader.author = EscapeHtml(renderedPost.post.author)
       /\ postHeader.authorAlt = EscapeHtml(renderedPost.post.author)

\* C8: content is the only post field written into markup unescaped: id,
\* image, readTime, category, title, excerpt, tags and author are escaped first.
C8_OnlyContentIsUnescaped ==
  \A i \in 1..Len(container) :
    container[i].kind = "blog-card" =>
      \E k \in 1..Len(posts) :
        /\ container[i].hrefId = EscapeHtml(IdToString(posts[k].id))
        /\ container[i].imgSrc = EscapeHtml(posts[k].image)
        /\ container[i].readTime =
             EscapeHtml(IF posts[k].readTime # <<>> THEN posts[k].readTime ELSE FiveMin)
        /\ container[i].title = EscapeHtml(posts[k].title)
        /\ container[i].excerpt = EscapeHtml(posts[k].excerpt)
        /\ container[i].category = EscapeHtml(posts[k].category)
        /\ container[i].tags = [t \in 1..Len(posts[k].tags) |-> EscapeHtml(posts[k].tags[t])]

\* The positions of fetched posts whose id, as text, is the id of the query.
IdPositions ==
  {i \in 1..Len(response.posts) : IdToString(response.posts[i].id) = urlId.value}

\* C9: whatever the posts and the id of the query, the detail view renders the
\* first post whose id as text equals the id exactly, and the title heading is
\* that post's title, HTML-escaped.
C9_RendersFirstPostWithId ==
  (postPc = "done" /\ urlId.value # <<>> /\ response.kind = "ok" /\ IdPositions # {}) =>
    LET first == response.posts[CHOOSE i \in IdPositions : \A j \in IdPositions : i <= j]
    IN /\ renderedPost = Found(first)
       /\ documentTitle = Written(first.title \o SiteTitleSuffix)
       /\ postContent = PostContentOf(first)
       /\ ".post-header" \in layout =>
            /\ postHeader.written
            /\ postHeader.title = EscapeHtml(first.title)

\* ?id=3 with a post of the numeric id 3 followed by one of the string id "3":
\* the first is rendered, its title a<b as a&lt;b.
C9_Witness ==
  /\ postPc = "done"
  /\ urlId.value = <<"3">>
  /\ response.kind = "ok"
  /\ response.posts = <<PostD, PostA, PostB>>
  /\ renderedPost = Found(PostA)
  /\ postHeader.title = <<"a", "&", "l", "t", ";", "b">>

\* C10: with no id or an empty one, with no post of that id, or with a failed
\* fetch, the post-content region shows the error message with the link back
\* to the listing, and neither document.title nor a meta tag is changed.
C10_NotFoundShowsErrorOnly ==
  (postPc = "done" /\ (urlId.value = <<>> \/ response.kind # "ok" \/ IdPositions = {})) =>
    /\ postContent.kind = "error-state"
    /\ postContent.backLink
    /\ documentTitle = Untouched
    /\ metaTags = BlankMeta

\* An id no post has, on a page with every meta tag, after the fetch of a
\* document with posts.
C10_Witness ==
  /\ postPc = "done"
  /\ urlId.value = <<"9">>
  /\ response.kind = "ok"
  /\ Len(response.posts) = 2
  /\ layout = OptionalElements
  /\ postContent = PostErrorState("post-not-found")

\* The data model's invariant on a post set: no two posts have the same id
\* text (the program itself does not enforce it).
IdsUnique(all) ==
  \A i, j \in 1..Len(all) : IdToString(all[i].id) = IdToString(all[j].id) => i = j

\* The position (1-based) of the rendered post in the posts sorted by date
\* descending.
CurrentPosition ==
  LET sorted == SortByDate(response.posts)
  IN CHOOSE i \in 1..Len(sorted) : sorted[i] = renderedPost.post

WelcomeRunning == welcomePc = "running" /\ ~hasSkipped /\ ~animationComplete

\* No timer of the welcome animation is pending: nothing of it will run any
\* more on this page load unless the user acts.
WelcomeQuiet == welcomeTimer = NoTimer /\ welcomeFadeTimer = NoTimer

\* C12: once the user has skipped the running welcome animation and its
\* pending timers have fired, the overlay is out of the document, body has
\* lost 'welcome-active' and the main content is revealed.
C12_SkipRemovesOverlay ==
  (hasSkipped /\ WelcomeQuiet) =>
    /\ ~welcomeOverlay.inDocument
    /\ ~bodyWelcomeActive
    /\ mainRevealed >= 1

\* C13: a keydown of Escape while the welcome animation is running invokes
\* skip() (which then sets hasSkipped), whatever was pressed before it and
\* whether or not the page has a skip button.
C13_EscapeSkips ==
  [][(lastKey' = "Escape" /\ lastKey # "Escape" /\ welcomeLoads' = welcomeLoads
        /\ WelcomeRunning)
       => hasSkipped']_vars

\* C14: unless the user skipped, the first call of complete() on a page load
\* is no earlier than MinDisplayTime after the construction of the loader.
C14_MinDisplayTime ==
  (loaderPc = "started" /\ completeEnteredAt # NoTimer /\ ~state.isSkipped) =>
    completeEnteredAt - state.startTime >= MinDisplayTime

\* The document was complete at construction on the second page load of a
\* session, and complete() was entered exactly MinDisplayTime later.
C14_Witness ==
  /\ loaderPc = "started"
  /\ loaderPage.readyComplete
  /\ pageLoads = 2
  /\ state.startTime > 0
  /\ ~state.isSkipped
  /\ completeEnteredAt = state.startTime + MinDisplayTime

C16_CompletionEventOnce ==
  /\ loaderCompleteEvents <= 1
  /\ welcomeCompleteEvents <= 1
  /\ contentRevealed >= 1 => loaderCompleteEvents = 1
  /\ mainRevealed >= 1 => welcomeCompleteEvents = 1

\* C17: the loader is displayed on at most one page load of a session.
C17_DisplayedOncePerSession == displayedLoads <= 1

C19_ReducedMotionBypasses ==
  /\ (loaderPc # "absent" /\ loaderPage.reducedMotion) =>
       /\ loaderPc = "bypassed"
       /\ ~loaderOverlay.inDocument
       /\ ~bodyLoaderActive
       /\ loaderTimers = {NoTimer}
  /\ (welcomePc # "absent" /\ welcomePage.reducedMotion) =>
       /\ welcomePc = "bypassed"
       /\ ~welcomeOverlay.inDocument
       /\ ~bodyWelcomeActive
       /\ welcomeTimers = {NoTimer}

C21_ReducedMotionShowsAll ==
  (scrollPc = "constructed" /\ scrollPage.reducedMotion) =>
    /\ observers = 0
    /\ \A i \in 1..Len(animatedElements) :
         /\ ~animatedElements[i].observed
         /\ animatedElements[i].style = [opacity |-> "1", transform |-> "none"]
    /\ \A i \in 1..Len(staggerContainers) :
         /\ ~staggerContainers[i].observed
         /\ \A j \in 1..Len(staggerContainers[i].children) :
              staggerContainers[i].children[j] = [opacity |-> "1", transform |-> "none"]
    /\ \A i \in 1..Len(countElements) :
         /\ ~countElements[i].observed
         /\ ~countElements[i].frame
         /\ countElements[i].text = ImmediateText(countElements[i])

\* Reduced motion on a page with a counter of data-count 42, prefix $ and
\* suffix +: it shows $42+.
C21_Witness ==
  /\ scrollPc = "constructed"
  /\ scrollPage.reducedMotion
  /\ Len(countElements) = 1
  /\ countElements[1].text = <<"$", "4", "2", "+">>
  /\ Len(animatedElements) = ElementCount

\* C25: a counter whose animation has run to the end of its duration shows
\* what showAllImmediately shows for the same dataset.
C25_AnimatedEqualsImmediate ==
  \A i \in 1..Len(countElements) :
    countElements[i].ended => countElements[i].text = ImmediateText(countElements[i])
\* isMenuOpen is true exactly when the hamburger, the mobile menu and the
\* overlay (each one the page has) carry 'active' and body carries 'menu-open'.
MenuConsistent ==
  /\ menuClasses.hamburger = (isMenuOpen /\ navPage.hamburger)
  /\ menuClasses.mobileMenu = (isMenuOpen /\ navPage.mobileMenu)
  /\ menuClasses.mobileOverlay = (isMenuOpen /\ navPage.mobileOverlay)
  /\ menuClasses.body = isMenuOpen

\* C22: on a page with the hamburger and the mobile menu, before and after
\* every step isMenuOpen agrees with the 'active' and 'menu-open' classes; a
\* hamburger click flips isMenuOpen; an overlay click, a menu-link click, an
\* Escape press and the debounced resize handler at a width of at least 1024
\* leave the menu closed.
C22_MenuStateAndClasses ==
  [][ /\ MenuConsistent /\ MenuConsistent'
      /\ HamburgerClick => (isMenuOpen' = ~isMenuOpen)
      /\ OverlayClick => ~isMenuOpen'
      /\ MenuLinkClick => ~isMenuOpen'
      /\ NavigationKeyDown("Escape") => ~isMenuOpen'
      /\ (ResizeTimerFires /\ innerWidth >= DesktopWidth) => ~isMenuOpen' ]_vars

\* The menu was open while the window was made wide, and the debounced
\* handler has just closed it.
C22_Witness ==
  /\ MenuListening
  /\ navPage.mobileOverlay
  /\ lastEvent = "resizeClosed"
  /\ innerWidth >= DesktopWidth
  /\ ~isMenuOpen
  /\ menuClasses = [hamburger |-> FALSE, mobileMenu |-> FALSE,
                    mobileOverlay |-> FALSE, body |-> FALSE]

\* C24: when no throttle or debounce timer is pending, the navbar carries
\* 'scrolled' exactly when the scroll offset is above 50, and the back-to-top
\* control is 'visible' exactly when it is above 300.
C24_ScrolledMatchesOffset ==
  (/\ navigationPc = "constructed"
   /\ ~navbarThrottle /\ ~backToTopThrottle /\ ~resizeTimer) =>
    /\ navPage.navbar => (navbarScrolled = (pageYOffset > ScrollThreshold))
    /\ navPage.backToTop => (backToTopVisible = (pageYOffset > BackToTopThreshold))
\* C27: in a browser whose sessionStorage throws, on a page load with the
\* loader on which no timer is pending any more (the fallback timer has fired
\* if it was ever set), the overlay is out of the document and the main
\* content has been revealed.
C27_StorageFailureNotStuck ==
  (/\ SetItemThrows(storageMode)
   /\ loaderPc # "absent"
   /\ loaderTimers = {NoTimer}) =>
    /\ ~loaderOverlay.inDocument
    /\ contentRevealed >= 1
\* C23: a component whose mount element the page lacks has fetched nothing,
\* has no listener and no timer, has written nothing to the document or to
\* storage and has thrown nothing: its state is, and stays, that of a page
\* on which its script does not run, even where sessionStorage throws.
C23_NoMountNoEffect ==
  /\ ("#blog-grid" \notin mounts) => BlogIdle
  /\ ("#post-content" \notin mounts) => DetailIdle
  /\ ("#loader-overlay" \notin mounts) => LoaderIdle
  /\ (mounts = {}) => response = NoResponse

\* The three constructors have run on a page with none of the mount elements,
\* in a browser that denies access to sessionStorage.
C23_Witness ==
  /\ mounts = {}
  /\ storageMode = "disabled"
  /\ blogPc = "absent"
  /\ postPc = "absent"
  /\ loaderPc = "absent"
\* C26: whether init() has run once or again, a load-more click advances
\* currentPage by exactly one, and a filter click runs exactly one listener,
\* so causes exactly one setFilter call.
C26_ControlsAfterInitAgain ==
  [][ /\ LoadMoreClick => currentPage' = currentPage + 1
      /\ (\E filter \in FilterValues : FilterClick(filter)) => clickListeners = 1 ]_vars
\* C28: when the pointer is over no [data-tooltip] element (every enter has
\* had its leave) and no tooltip timer is pending, no tooltip element is in
\* the document.
C28_NoTooltipRemains ==
  (mainPc = "initialized" /\ hovered = 0 /\ tooltipTimers = {}) => tooltips = <<>>

\* C29: body's overflow is 'hidden' exactly when some modal carries 'active'.
C29_ScrollLockMatchesModals ==
  mainPc = "initialized" => ((bodyOverflow = "hidden") <=> (activeModals # {}))

====
